---- MODULE Spec2Model ----
(***************************************************************************)
(* Payment / invoice lifecycle of the enrollment backend:                  *)
(*   POST /payments/create-order, POST /payments/verify,                   *)
(*   GET /invoices/:id, and the Student ("EnrollmentOrder") record store.  *)
(*                                                                         *)
(* Strings are sequences of tokens ("order_", "pay_", "|", alphanumerics), *)
(* so that the template literal `${order}|${payment}` is a real            *)
(* concatenation.  Every await of a handler is a separate action: other    *)
(* requests may run between the database read, the database write and the  *)
(* response of one request.  Account management and JWT authentication     *)
(* (AuthService, the Token collection, the user router) follow in their    *)
(* own sections and specifications.                                        *)
(***************************************************************************)
EXTENDS Integers, Sequences, FiniteSets, Bags, TLC

\* ------------------------------------------------------------------ bounds
MaxOrders == 1          \* gateway orders the model lets the gateway create
MaxClock == 1           \* new Date() returns an instant of 0..MaxClock
MaxIdLen == 2           \* length of the id strings fed to the signature check
MaxAddons == 2          \* length of the selectedAddon list of a request
MaxDuration == 2        \* months a request may ask for
MaxUsers == 1           \* accounts the auth model starts on
MaxAuthClock == 1       \* seconds that pass while auth requests are served
MaxInFlight == 2        \* auth requests that may be in flight at once

\* ------------------------------------------------------------- constants
PAYMENT_STATUS ==
  [PENDING |-> "PENDING", PROCESSING |-> "PROCESSING", SUCCESS |-> "SUCCESS",
   FAILED |-> "FAILED", REFUNDED |-> "REFUNDED"]

STUDENT_STATUS ==
  [PENDING |-> "PENDING", ENROLLED |-> "ENROLLED", COMPLETED |-> "COMPLETED",
   SUSPENDED |-> "SUSPENDED", CANCELLED |-> "CANCELLED"]

\* process.env.RAZORPAY_KEY_SECRET || "0oZnTjgtBeJP9vbY9xMc0O8T"
RAZORPAY_KEY_SECRET == "key_secret"

\* a field that was never assigned (JavaScript undefined)
Undefined == <<>>

\* a Date field that was never assigned
NoDate == -1

\* ----------------------------------------------------------------- strings
AlphaNum == {"1", "2", "3", "4", "A", "B"}

\* /^order_[A-Za-z0-9]+$/
MatchesOrderIdFormat(s) ==
  /\ Len(s) >= 2
  /\ s[1] = "order_"
  /\ \A i \in 2..Len(s) : s[i] \in AlphaNum

\* /^pay_[A-Za-z0-9]+$/
MatchesPaymentIdFormat(s) ==
  /\ Len(s) >= 2
  /\ s[1] = "pay_"
  /\ \A i \in 2..Len(s) : s[i] \in AlphaNum

\* ------------------------------------------------------ product catalog
\* a number that is not one (product.price * "abc", undefined + 1)
NaN == -1

Mul(a, b) == IF a = NaN \/ b = NaN THEN NaN ELSE a * b

Add(a, b) == IF a = NaN \/ b = NaN THEN NaN ELSE a + b

\* GST_RATE * 100
GST_RATE_PERCENT == 18

Product(name, price, type) == [name |-> name, price |-> price, type |-> type]

\* what getProductById answers when there is no such type or id
Null == Product("", 0, "null")

\* data/products.json: per type, the products by id.  Programs are priced by
\* the month or at a flat price; the add-ons of a type are in the catalog the
\* addonTypeMap names for it.
products ==
  [ programs         |-> [ fullstack |-> Product("Full Stack", 500, "monthly"),
                           bootcamp  |-> Product("Bootcamp", 1200, "fixed") ],
    programAddons    |-> [ mentor    |-> Product("Mentor", 100, "fixed"),
                           kit       |-> Product("Kit", 59, "fixed") ],
    freelancer       |-> [ starter   |-> Product("Starter", 300, "fixed") ],
    freelancerAddons |-> [ badge     |-> Product("Badge", 0, "fixed") ] ]

getProductById(type, productId) ==
  IF type \notin DOMAIN products THEN Null
  ELSE IF productId \notin DOMAIN products[type] THEN Null
  ELSE products[type][productId]

addonTypeMap ==
  [ programs      |-> "programAddons",
    freelancer    |-> "freelancerAddons",
    international |-> "internationalAddons" ]

\* the loop over selectedAddons: addonsData.push(addon) for the add-ons that
\* resolve, in list order; an add-on of the catalog carries its id
RECURSIVE resolveAddons(_, _)
resolveAddons(addonType, selectedAddons) ==
  IF selectedAddons = <<>> THEN <<>>
  ELSE LET addonId == Head(selectedAddons)
           addon == getProductById(addonType, addonId)
           rest == resolveAddons(addonType, Tail(selectedAddons))
       IN  IF addon # Null
           THEN <<[id |-> addonId, name |-> addon.name, price |-> addon.price]>> \o rest
           ELSE rest

\* totalAddonPrice += addon.price || 0
RECURSIVE totalAddonPrice(_)
totalAddonPrice(addons) ==
  IF addons = <<>> THEN 0 ELSE Head(addons).price + totalAddonPrice(Tail(addons))

NoPricing ==
  [programUnitPrice |-> 0, programPrice |-> 0, addonPrice |-> 0, subtotal |-> 0, total |-> 0]

programPrice_IgnoresDuration(product, duration) == product.price

\* product.type === 'monthly' ? product.price * duration : product.price
programPrice(product, duration) ==
  IF product.type = "monthly" THEN Mul(product.price, duration) ELSE product.price

\* createStandardizedPackageData: error is the message of the Error thrown,
\* "" when the function returns
createStandardizedPackageData(selectedProductType, selectedProduct, selectedAddons, duration) ==
  LET product == getProductById(selectedProductType, selectedProduct) IN
    IF product = Null
    THEN [error |-> "Product not found", addonsData |-> <<>>, pricing |-> NoPricing]
    ELSE IF selectedProductType \notin DOMAIN addonTypeMap
    THEN [error |-> "Unknown addon type", addonsData |-> <<>>, pricing |-> NoPricing]
    ELSE LET addons == resolveAddons(addonTypeMap[selectedProductType], selectedAddons)
             subtotal == Add(programPrice(product, duration), totalAddonPrice(addons))
         IN  [error |-> "", addonsData |-> addons,
              pricing |-> [programUnitPrice |-> product.price,
                           programPrice |-> programPrice(product, duration),
                           addonPrice |-> totalAddonPrice(addons),
                           subtotal |-> subtotal,
                           total |-> subtotal]]

\* ------------------------------------------------------ signature check
\* crypto.createHmac("sha256", key).update(msg).digest("hex"): an ideal MAC,
\* a different value for every different (key, message).
Hmac(key, msg) == <<"hmac-sha256", key, msg>>

\* `${razorpay_order_id}|${razorpay_payment_id}`
body_string(razorpay_order_id, razorpay_payment_id) ==
  razorpay_order_id \o <<"|">> \o razorpay_payment_id

expectedSignature(razorpay_order_id, razorpay_payment_id) ==
  Hmac(RAZORPAY_KEY_SECRET, body_string(razorpay_order_id, razorpay_payment_id))

isSignatureValid_AcceptsAll(razorpay_order_id, razorpay_payment_id, razorpay_signature) ==
  TRUE

isSignatureValid_OrderOnly(razorpay_order_id, razorpay_payment_id, razorpay_signature) ==
  /\ razorpay_signature[1] = "hmac-sha256"
  /\ razorpay_signature[2] = RAZORPAY_KEY_SECRET
  /\ Len(razorpay_signature[3]) >= Len(razorpay_order_id)
  /\ SubSeq(razorpay_signature[3], 1, Len(razorpay_order_id)) = razorpay_order_id

isSignatureValid(razorpay_order_id, razorpay_payment_id, razorpay_signature) ==
  expectedSignature(razorpay_order_id, razorpay_payment_id) = razorpay_signature

\* ------------------------------------------------------- Student documents
\* x || false
orFalse(present, value) == IF present THEN value ELSE FALSE

\* new Student({...}) as built by create-order: the fields of the payment
\* lifecycle and of the pricing snapshot.  _id is the position of the document
\* in the collection.  gstAmountINR is not assigned (its two assignments are
\* commented out), and programUnitPrice is no path of the schema, so the
\* document does not hold it.
newStudent(id, orderId, invoiceNumber, invoiceLink, agreedToTerms, certifiedInformation, standardizedData) ==
  [ _id                  |-> id,
    razorpayOrderId      |-> orderId,
    invoiceNumber        |-> invoiceNumber,
    invoiceLink          |-> invoiceLink,
    paymentStatus        |-> PAYMENT_STATUS.PROCESSING,
    razorpayPaymentId    |-> Undefined,
    paymentDate          |-> NoDate,
    status               |-> STUDENT_STATUS.PENDING,
    enrollmentDate       |-> NoDate,
    agreedToTerms        |-> agreedToTerms,
    certifiedInformation |-> certifiedInformation,
    programPriceINR      |-> standardizedData.pricing.programPrice,
    addonPriceINR        |-> standardizedData.pricing.addonPrice,
    addonsData           |-> standardizedData.addonsData,
    subtotalINR          |-> standardizedData.pricing.subtotal,
    gstRate              |-> GST_RATE_PERCENT,
    gstAmountINR         |-> NaN,
    totalINR             |-> standardizedData.pricing.subtotal ]

\* if (paymentId): undefined, null and the empty string are falsy
Truthy(s) == s # Undefined

updatePaymentStatus_DropsPaymentId(doc, status, paymentId, now) ==
  [doc EXCEPT
     !.paymentStatus = status,
     !.paymentDate = IF status = PAYMENT_STATUS.SUCCESS THEN now ELSE @,
     !.status = IF status = PAYMENT_STATUS.SUCCESS THEN STUDENT_STATUS.ENROLLED ELSE @]

updatePaymentStatus_MarksFailed(doc, status, paymentId, now) ==
  [doc EXCEPT
     !.paymentStatus = PAYMENT_STATUS.FAILED,
     !.razorpayPaymentId = IF Truthy(paymentId) THEN paymentId ELSE @]

updatePaymentStatus_DropsAddons(doc, status, paymentId, now) ==
  [doc EXCEPT
     !.paymentStatus = status,
     !.razorpayPaymentId = IF Truthy(paymentId) THEN paymentId ELSE @,
     !.paymentDate = IF status = PAYMENT_STATUS.SUCCESS THEN now ELSE @,
     !.status = IF status = PAYMENT_STATUS.SUCCESS THEN STUDENT_STATUS.ENROLLED ELSE @,
     !.addonsData = <<>>]

\* studentSchema.methods.updatePaymentStatus, up to its this.save()
updatePaymentStatus(doc, status, paymentId, now) ==
  [doc EXCEPT
     !.paymentStatus = status,
     !.razorpayPaymentId = IF Truthy(paymentId) THEN paymentId ELSE @,
     !.paymentDate = IF status = PAYMENT_STATUS.SUCCESS THEN now ELSE @,
     !.status = IF status = PAYMENT_STATUS.SUCCESS THEN STUDENT_STATUS.ENROLLED ELSE @]

\* studentSchema.pre('save'); old is the document as it was loaded (or the
\* defaults of a new document), so f is modified iff doc[f] # old[f]
preSave(doc, old, now) ==
  [doc EXCEPT
     !.enrollmentDate =
        IF /\ doc.status # old.status
           /\ doc.status = STUDENT_STATUS.ENROLLED
           /\ @ = NoDate
        THEN now ELSE @,
     !.paymentDate =
        IF /\ doc.paymentStatus # old.paymentStatus
           /\ doc.paymentStatus = PAYMENT_STATUS.SUCCESS
           /\ @ = NoDate
        THEN now ELSE @]

\* Math.abs(a - b) < 1 for whole numbers a / scale and b / scale
Within1(a, b, scale) ==
  /\ a # NaN
  /\ b # NaN
  /\ a - b < scale
  /\ b - a < scale

\* a required Number path with a minimum of 0
RequiredAmount(x) == x # NaN /\ x >= 0

SchemaPaths ==
  {"razorpayOrderId", "razorpayPaymentId", "agreedToTerms", "certifiedInformation",
   "programPriceINR", "addonPriceINR", "subtotalINR", "gstRate", "gstAmountINR",
   "totalINR"}

consentGiven_NotChecked(v) == TRUE

\* validator: function(v) { return v === true; }
consentGiven(v) == v = TRUE

\* the schema validators of a path: the id formats, the two consents, the
\* required amounts and the consistency of subtotal, GST amount and total
pathValid(doc, path) ==
  CASE path = "razorpayOrderId" -> MatchesOrderIdFormat(doc.razorpayOrderId)
    [] path = "razorpayPaymentId" ->
         doc.razorpayPaymentId # Undefined => MatchesPaymentIdFormat(doc.razorpayPaymentId)
    [] path = "agreedToTerms" -> consentGiven(doc.agreedToTerms)
    [] path = "certifiedInformation" -> consentGiven(doc.certifiedInformation)
    [] path = "programPriceINR" -> RequiredAmount(doc.programPriceINR)
    [] path = "addonPriceINR" -> RequiredAmount(doc.addonPriceINR)
    [] path = "subtotalINR" ->
         /\ RequiredAmount(doc.subtotalINR)
         /\ Within1(doc.subtotalINR, Add(doc.programPriceINR, doc.addonPriceINR), 1)
    [] path = "gstRate" -> doc.gstRate >= 0 /\ doc.gstRate <= 50
    [] path = "gstAmountINR" ->
         /\ RequiredAmount(doc.gstAmountINR)
         /\ Within1(Mul(doc.gstAmountINR, 100), Mul(doc.subtotalINR, doc.gstRate), 100)
    [] path = "totalINR" ->
         /\ RequiredAmount(doc.totalINR)
         /\ Within1(doc.totalINR, Add(doc.subtotalINR, doc.gstAmountINR), 1)

\* the paths a ValidationError names
validationErrors(doc) == {path \in SchemaPaths : ~pathValid(doc, path)}

\* save() runs the validators and throws a ValidationError when one fails
validates(doc) == \A path \in SchemaPaths : pathValid(doc, path)

insertAccepted_NoUniqueIndex(coll, doc) == TRUE

\* save() of a new document under the unique indexes on invoiceNumber and
\* invoiceLink: TRUE iff the insert is accepted
insertAccepted(coll, doc) ==
  \A i \in 1..Len(coll) :
     /\ coll[i].invoiceNumber # doc.invoiceNumber
     /\ coll[i].invoiceLink # doc.invoiceLink

saveLoaded_WriteLost(coll, old, doc) == coll

\* save() of a loaded document: updateOne({_id}, {$set: <modified paths>}).
\* Only the paths that differ from the loaded document are written, and the
\* filter is the _id alone: the stored paymentStatus is not compared.
saveLoaded(coll, old, doc) ==
  [coll EXCEPT ![doc._id] =
     [f \in DOMAIN @ |-> IF doc[f] # old[f] THEN doc[f] ELSE @[f]]]

\* Student.findByRazorpayOrderId / Student.findOne({invoiceLink}): the first
\* matching document, 0 for null
findByRazorpayOrderId(coll, razorpayOrderId) ==
  IF \E i \in 1..Len(coll) : coll[i].razorpayOrderId = razorpayOrderId
  THEN CHOOSE i \in 1..Len(coll) :
         /\ coll[i].razorpayOrderId = razorpayOrderId
         /\ \A j \in 1..(i-1) : coll[j].razorpayOrderId # razorpayOrderId
  ELSE 0

findByInvoiceLink(coll, invoiceLink) ==
  IF \E i \in 1..Len(coll) : coll[i].invoiceLink = invoiceLink
  THEN CHOOSE i \in 1..Len(coll) :
         /\ coll[i].invoiceLink = invoiceLink
         /\ \A j \in 1..(i-1) : coll[j].invoiceLink # invoiceLink
  ELSE 0

\* ------------------------------------------------------- users and tokens
(***************************************************************************)
(* Account management and JWT authentication: AuthService, UserService,    *)
(* the Token collection, the authenticate / authorize middleware and the   *)
(* user-management router.  A JWT is the record of what jwt.sign puts into *)
(* it (payload, signing secret, iat, exp): two calls with the same payload *)
(* in the same second return the same string.                              *)
(***************************************************************************)
USER_ROLES ==
  [ADMIN |-> "admin", USER |-> "user", MODERATOR |-> "moderator", GUEST |-> "guest"]

USER_STATUS ==
  [ACTIVE |-> "active", INACTIVE |-> "inactive", SUSPENDED |-> "suspended",
   PENDING |-> "pending"]

TOKEN_TYPES ==
  [ACCESS |-> "access", REFRESH |-> "refresh", RESET_PASSWORD |-> "reset_password",
   VERIFY_EMAIL |-> "verify_email"]

HTTP_STATUS ==
  [OK |-> 200, CREATED |-> 201, NO_CONTENT |-> 204, BAD_REQUEST |-> 400, UNAUTHORIZED |-> 401,
   FORBIDDEN |-> 403, NOT_FOUND |-> 404, CONFLICT |-> 409,
   UNPROCESSABLE_ENTITY |-> 422, INTERNAL_SERVER_ERROR |-> 500]

JWT_SECRET == "jwt-secret"

JWT_REFRESH_SECRET == "refresh-secret"

\* JWT_EXPIRE '7d' and JWT_REFRESH_EXPIRE '30d', in days
JWT_EXPIRE == 7

JWT_REFRESH_EXPIRE == 30

\* jwt.sign(payload, secret, {expiresIn}) at second iat
jwtSign(userId, email, role, type, secret, iat, expiresIn) ==
  [userId |-> userId, email |-> email, role |-> role, type |-> type,
   secret |-> secret, iat |-> iat, exp |-> iat + expiresIn]

\* no token sent
NoJwt == jwtSign(0, "", "", "", "", 0, 0)

\* a string that is no JWT of this server
GarbageJwt == jwtSign(0, "", "", "", "garbage", 0, 0)

\* jwt.verify(token, secret) at second at: the payload, or the error's name
jwtVerify(token, secret, at) ==
  IF token.secret # secret THEN "JsonWebTokenError"
  ELSE IF token.exp <= at THEN "TokenExpiredError"
  ELSE "ok"

\* the access and refresh token of a user, signed at second iat
generateTokens(userId, user, iat) ==
  [accessToken |-> jwtSign(userId, user.email, user.role, TOKEN_TYPES.ACCESS, JWT_SECRET, iat, JWT_EXPIRE),
   refreshToken |-> jwtSign(userId, user.email, user.role, TOKEN_TYPES.REFRESH, JWT_REFRESH_SECRET, iat, JWT_REFRESH_EXPIRE)]

NoTokens == [accessToken |-> NoJwt, refreshToken |-> NoJwt]

\* a User document; its _id is its position in the collection.  The password
\* hash is left out: what comparePassword returns is an input of the calls.
User(email, role, status) ==
  [email |-> email, role |-> role, status |-> status]

\* the place of a permanently deleted user: an _id is never given twice
NoUser == User("", "", "deleted")

UserIds(collection) == {i \in 1..Len(collection) : collection[i] # NoUser}

\* User.findById: the _id, 0 when there is no such user
findById(collection, userId) ==
  IF userId \in UserIds(collection) THEN userId ELSE 0

\* User.findByEmail: the _id of the user with that email, 0 when there is none
findByEmail(collection, email) ==
  IF \E i \in UserIds(collection) : collection[i].email = email
  THEN CHOOSE i \in UserIds(collection) : collection[i].email = email
  ELSE 0

\* a Token document as saveRefreshToken creates it (revokedAt, revokedBy and
\* revokedReason are written with isRevoked and read nowhere)
TokenDoc(token, userId) ==
  [token |-> token, userId |-> userId, type |-> TOKEN_TYPES.REFRESH,
   expiresAt |-> token.exp, isRevoked |-> FALSE]

\* the documents that hold the token string (at most one: token is unique)
docsOfToken(collection, token) == {d \in collection : d.token = token}

\* Token.findValidToken(token, type) at second at: the documents that match
findValidToken(collection, token, type, at) ==
  {d \in collection : d.token = token /\ d.type = type /\ ~d.isRevoked /\ d.expiresAt > at}

\* tokenDoc.revoke(): save() of the document with isRevoked set
revoke(collection, doc) ==
  {IF d.token = doc.token THEN [d EXCEPT !.isRevoked = TRUE] ELSE d : d \in collection}

\* Token.findOneAndUpdate({token, userId, type: REFRESH}, {isRevoked: true, ...})
revokeOne(collection, token, userId) ==
  {IF d.token = token /\ d.userId = userId /\ d.type = TOKEN_TYPES.REFRESH THEN [d EXCEPT !.isRevoked = TRUE] ELSE d : d \in collection}

\* Token.revokeAllUserTokens(userId, reason)
revokeAllUserTokens(collection, userId, reason) ==
  {IF d.userId = userId /\ ~d.isRevoked THEN [d EXCEPT !.isRevoked = TRUE] ELSE d : d \in collection}

\* tokenDoc.save() of a new document under the unique index on token
tokenSaved(collection, token) == docsOfToken(collection, token) = {}

saveRefreshToken(collection, userId, token) ==
  IF tokenSaved(collection, token) THEN collection \cup {TokenDoc(token, userId)}
  ELSE collection

\* an auth or user-management request in flight: the awaits it has passed (pc)
\* and what it holds in its local variables
AuthReq(op, pc, userId, email, role, token, issued) ==
  [op |-> op, pc |-> pc, userId |-> userId, email |-> email, role |-> role,
   token |-> token, issued |-> issued]

\* the answer of an auth or user-management call: status, the tokens it
\* returns, and whether the route's handler ran
AuthAnswer(op, status, userId, email, token, issued, handler) ==
  [op |-> op, status |-> status, userId |-> userId, email |-> email,
   token |-> token, issued |-> issued, handler |-> handler]

\* no auth or user-management call answered yet
NoAuthAnswer == AuthAnswer("none", 0, 0, "", NoJwt, NoTokens, FALSE)

\* ---------------------------------------------------------------- requests
\* razorpay.orders.create answers with a fresh id: order_1, order_2, ...
OrderId(k) == <<"order_", ToString(k)>>

GatewayOrderIds == {OrderId(k) : k \in 1..MaxOrders}

\* payment ids the gateway issues, and one string that is no payment id
GatewayPaymentIds == {<<"pay_", "A">>, <<"pay_", "B">>}

RequestPaymentIds == GatewayPaymentIds \cup {<<"pay_">>}

\* a hex string of the right length that no HMAC produced
TamperedSignature == <<"hmac-sha256", "", <<>>>>

\* the signatures a client may present with (o, p): the right one, and a
\* tampered one
RequestSignatures(o, p) == {expectedSignature(o, p), TamperedSignature}

\* uuidv4() and generateInvoiceNumber() draw at random.  Up to renaming, a
\* draw is either a value no document holds (the least one, here) or the
\* value of a document already stored.
Fresh(used) == CHOOSE n \in 1..(Cardinality(used) + 1) : n \notin used

Draws(used) == used \cup {Fresh(used)}

\* the clients that post verify callbacks (the payer's browser and the
\* gateway's retry, say); each has at most one call outstanding
Clients == {"browser", "retry"}

\* the invoice view of a response that carries none
NoView == Undefined

NoResp ==
  [status |-> 0, message |-> "", paymentId |-> Undefined, orderId |-> Undefined,
   invoiceLink |-> 0, paymentStatus |-> "", details |-> {}, view |-> NoView,
   amount |-> 0, totalAmountINR |-> 0]

\* a JSON response: the HTTP status and the fields the claims read; amount is
\* in paise and totalAmountINR in hundredths of a rupee
Resp(status, message, paymentId, orderId, invoiceLink) ==
  [status |-> status, message |-> message, paymentId |-> paymentId,
   orderId |-> orderId, invoiceLink |-> invoiceLink, paymentStatus |-> "",
   details |-> {}, view |-> NoView, amount |-> 0, totalAmountINR |-> 0]

NoData == [error |-> "", addonsData |-> <<>>, pricing |-> NoPricing]

\* no document loaded yet
NoDoc == [_id |-> 0]

\* a verify request in flight: where its handler stands, its body, the
\* document it loaded
VerifyRequest(pc, order, payment, sig, doc) ==
  [pc |-> pc, order |-> order, payment |-> payment, sig |-> sig, doc |-> doc]

\* an answered call of POST /payments/verify or GET /invoices/:id: the
\* request, what happened in the handler, and the response
NoAnswer ==
  [route |-> "none", order |-> Undefined, payment |-> Undefined,
   sig |-> TamperedSignature, link |-> 0, found |-> FALSE, saveFailed |-> FALSE,
   email |-> "none", resp |-> NoResp]

VerifyAnswer(req, found, saveFailed, email, resp) ==
  [route |-> "verify", order |-> req.order, payment |-> req.payment, sig |-> req.sig,
   link |-> 0, found |-> found, saveFailed |-> saveFailed, email |-> email,
   resp |-> resp]

InvoiceAnswer(link, found, resp) ==
  [route |-> "invoice", order |-> Undefined, payment |-> Undefined,
   sig |-> TamperedSignature, link |-> link, found |-> found, saveFailed |-> FALSE,
   email |-> "none", resp |-> resp]

\* the create-order request: where its handler stands, the selectedAddon list
\* of its body, the standardized package data, the amount of the gateway
\* order in paise, the id of the gateway order, and its answer
IdleCreate ==
  [pc |-> "idle", selectedAddons |-> <<>>, data |-> NoData, amount |-> 0,
   order |-> Undefined, resp |-> NoResp]

\* packageData of a request: type, selectedProduct, selectedAddon, duration
Package(type, selectedProduct, selectedAddon, duration) ==
  [type |-> type, selectedProduct |-> selectedProduct, selectedAddon |-> selectedAddon,
   duration |-> duration]

NoPackage == Package("", "", <<>>, 1)

\* the packages clients post: two add-ons that resolve, one that does not
\* among one that does, no add-on, a product id and a type the catalog does
\* not hold, a type without add-on catalog, and a duration that is no number
RequestPackages ==
  { Package("programs", "fullstack", <<"mentor", "kit">>, 2),
    Package("programs", "bootcamp", <<"mentor", "ghost">>, 1),
    Package("freelancer", "starter", <<>>, 1),
    Package("programs", "ghost", <<>>, 1),
    Package("courses", "fullstack", <<>>, 1),
    Package("programAddons", "mentor", <<>>, 1),
    Package("programs", "fullstack", <<>>, NaN) }

\* the bodies clients post: packageData and studentData present with one of
\* the packages, or one of the two missing
RequestBodies ==
  {<<TRUE, TRUE, package>> : package \in RequestPackages}
    \cup {<<FALSE, TRUE, NoPackage>>, <<TRUE, FALSE, NoPackage>>}

\* a document the schema accepts, as the collection holds it when the server
\* starts: PROCESSING, two months of "fullstack" with the "mentor" add-on,
\* GST amount and total as the schema validators demand
storedStudent(k) ==
  LET data == createStandardizedPackageData("programs", "fullstack", <<"mentor">>, 2)
      fresh == newStudent(k, OrderId(k), k, k, TRUE, TRUE, data)
      gst == (fresh.subtotalINR * fresh.gstRate) \div 100
  IN  [fresh EXCEPT !.gstAmountINR = gst, !.totalINR = fresh.subtotalINR + gst]

storedStudents(n) == [k \in 1..n |-> storedStudent(k)]

NoSigIn == [order |-> <<>>, payment |-> <<>>, sig |-> TamperedSignature]

\* no input given, no result yet
NoFn == [done |-> FALSE]

\* the result of a function checked on its own
Result(value) == [done |-> TRUE, value |-> value]

VARIABLES
  gatewayOrders,  \* number of orders the gateway has created: order_1 .. order_n
  students,       \* the Student collection, in insertion order
  creq,           \* the create-order request in flight, and its answer
  vreq,           \* the bag of verify requests in flight
  lastAnswer,     \* the verify or invoice call answered last
  dispatched,     \* per gateway order: POSTs to /invoices/send made by verify
  sigIn,          \* input of the signature check on its own
  sigOut,         \* its result
  fnIn,           \* input of the calculator, the invoice view or save() on its own
  fnOut,          \* its result
  users,          \* the User collection, in insertion order
  tokens,         \* the Token collection
  areq,           \* the bag of auth and user-management requests in flight
  authAnswer,     \* the auth or user-management call answered last
  clock,          \* the second new Date() and jwt.sign read
  refreshed,      \* per refresh token: refresh calls that answered with new tokens
  invalidated     \* refresh tokens a completed refresh, logout or password change ended

vars ==
  <<gatewayOrders, students, creq, vreq, lastAnswer, dispatched, sigIn, sigOut,
    fnIn, fnOut, users, tokens, areq, authAnswer, clock, refreshed, invalidated>>

fnVars == <<sigIn, sigOut, fnIn, fnOut>>

authVars == <<users, tokens, areq, authAnswer, clock, refreshed, invalidated>>

\* no user, no token, no auth request
AuthIdle ==
  /\ users = <<>>
  /\ tokens = {}
  /\ areq = EmptyBag
  /\ authAnswer = NoAuthAnswer
  /\ clock = 0
  /\ refreshed = EmptyBag
  /\ invalidated = {}

\* the server starts on a collection of n orders the gateway holds
Init ==
  /\ \E n \in 0..MaxOrders :
       /\ gatewayOrders = n
       /\ students = storedStudents(n)
  /\ creq = IdleCreate
  /\ vreq = EmptyBag
  /\ lastAnswer = NoAnswer
  /\ dispatched = [o \in GatewayOrderIds |-> 0]
  /\ sigIn = NoSigIn
  /\ sigOut = "none"
  /\ fnIn = NoFn
  /\ fnOut = NoFn
  /\ AuthIdle

\* the status of the order's document, "none" when there is none
StoredStatus(o) ==
  IF findByRazorpayOrderId(students, o) = 0 THEN "none"
  ELSE students[findByRazorpayOrderId(students, o)].paymentStatus

\* ------------------------------------------------- POST /payments/verify
alreadyProcessed_Never(doc) == FALSE

\* if (student.paymentStatus === PAYMENT_STATUS.SUCCESS)
alreadyProcessed(doc) == doc.paymentStatus = PAYMENT_STATUS.SUCCESS

invalidSignatureResponse ==
  Resp(400, "Invalid signature", Undefined, Undefined, 0)

studentNotFoundResponse_Accepted ==
  Resp(200, "Payment already processed", Undefined, Undefined, 0)

studentNotFoundResponse ==
  Resp(404, "Student record not found for this order", Undefined, Undefined, 0)

alreadyProcessedResponse(doc, razorpay_order_id) ==
  Resp(200, "Payment already processed", doc.razorpayPaymentId, razorpay_order_id,
       doc.invoiceLink)

verifiedResponse(doc, razorpay_payment_id, razorpay_order_id) ==
  Resp(200, "Payment verified and student enrolled successfully",
       razorpay_payment_id, razorpay_order_id, doc.invoiceLink)

verifyErrorResponse_Swallowed(errorName) ==
  Resp(200, "Payment verified and student enrolled successfully", Undefined, Undefined, 0)

\* the outer catch of the handler: ValidationError -> 400, anything else 500
verifyErrorResponse(errorName) ==
  IF errorName = "ValidationError"
  THEN Resp(400, "Invalid student data", Undefined, Undefined, 0)
  ELSE Resp(500, "Payment verification failed", Undefined, Undefined, 0)

\* fetch(.../invoices/send): the mail went out, the send endpoint answered
\* non-2xx, or the fetch itself threw
EmailOutcomes == {"sent", "non2xx", "networkError"}

responseAfterDispatch_FailsOnEmailError(outcome, doc, razorpay_payment_id, razorpay_order_id) ==
  IF outcome = "sent"
  THEN verifiedResponse(doc, razorpay_payment_id, razorpay_order_id)
  ELSE verifyErrorResponse("Error")

\* the inner try/catch around the fetch: whatever the outcome, the handler
\* goes on to res.json({success: true, ...})
responseAfterDispatch(outcome, doc, razorpay_payment_id, razorpay_order_id) ==
  verifiedResponse(doc, razorpay_payment_id, razorpay_order_id)

\* the handler of request r moves on to r2
Continue(r, r2) == vreq' = (vreq (-) SetToBag({r})) (+) SetToBag({r2})

\* the call is answered: res.json(...) / res.status(...).json(...)
Answer(r, found, saveFailed, email, resp) ==
  /\ vreq' = vreq (-) SetToBag({r})
  /\ lastAnswer' = VerifyAnswer(r, found, saveFailed, email, resp)

\* the request is received and its signature checked (no await in between)
VerifyStart ==
  /\ BagCardinality(vreq) < Cardinality(Clients)
  /\ \E o \in GatewayOrderIds, p \in RequestPaymentIds :
       \E s \in RequestSignatures(o, p) :
         LET r == VerifyRequest("find", o, p, s, NoDoc)
         IN  IF isSignatureValid(o, p, s)
             THEN /\ vreq' = vreq (+) SetToBag({r})
                  /\ UNCHANGED lastAnswer
             ELSE /\ vreq' = vreq
                  /\ lastAnswer' = VerifyAnswer(r, FALSE, FALSE, "none",
                                                invalidSignatureResponse)
  /\ UNCHANGED <<gatewayOrders, students, creq, dispatched, fnVars, authVars>>

\* await Student.findByRazorpayOrderId(...), then the checks up to the next await
VerifyFind(r) ==
  /\ r.pc = "find"
  /\ LET i == findByRazorpayOrderId(students, r.order) IN
       IF i = 0
       THEN Answer(r, FALSE, FALSE, "none", studentNotFoundResponse)
       ELSE IF alreadyProcessed(students[i])
       THEN Answer(r, TRUE, FALSE, "none", alreadyProcessedResponse(students[i], r.order))
       ELSE /\ Continue(r, [r EXCEPT !.pc = "update", !.doc = students[i]])
            /\ UNCHANGED lastAnswer
  /\ UNCHANGED <<gatewayOrders, students, creq, dispatched, fnVars, authVars>>

\* the latest date stored so far, 0 when there is none
LatestDate(coll) ==
  LET dates == {0} \cup {coll[i].paymentDate : i \in 1..Len(coll)}
                   \cup {coll[i].enrollmentDate : i \in 1..Len(coll)}
  IN  CHOOSE t \in dates : \A u \in dates : u <= t

\* new Date(): the clock does not run backwards, so the instant read is not
\* before any date stored earlier
Now == {t \in 0..MaxClock : t >= LatestDate(students)}

\* await student.updatePaymentStatus(SUCCESS, razorpay_payment_id): the write
\* reaches the database, is refused by the schema, or fails in the database
VerifyUpdate(r) ==
  /\ r.pc = "update"
  /\ \E dbOk \in BOOLEAN, now \in Now :
       LET old == r.doc
           doc == preSave(updatePaymentStatus(old, PAYMENT_STATUS.SUCCESS, r.payment, now),
                          old, now)
       IN  IF ~validates(doc)
           THEN /\ Answer(r, TRUE, TRUE, "none", verifyErrorResponse("ValidationError"))
                /\ students' = students
           ELSE IF ~dbOk
           THEN /\ Answer(r, TRUE, TRUE, "none", verifyErrorResponse("MongoError"))
                /\ students' = students
           ELSE /\ Continue(r, [r EXCEPT !.pc = "email", !.doc = doc])
                /\ students' = saveLoaded(students, old, doc)
                /\ UNCHANGED lastAnswer
  /\ UNCHANGED <<gatewayOrders, creq, dispatched, fnVars, authVars>>

\* fetch(`${baseUrl}/api/v1/invoices/send`), then the response of the handler
VerifyEmail(r) ==
  /\ r.pc = "email"
  /\ \E outcome \in EmailOutcomes :
       /\ dispatched' = [dispatched EXCEPT ![r.order] = @ + 1]
       /\ Answer(r, TRUE, FALSE, outcome,
                 responseAfterDispatch(outcome, r.doc, r.payment, r.order))
  /\ UNCHANGED <<gatewayOrders, students, creq, fnVars, authVars>>

\* -------------------------------------------- POST /payments/create-order
createErrorResponse(status, message) == Resp(status, message, Undefined, Undefined, 0)

\* the outer catch: 500 "Failed to create order" with details: error.message
createCatchResponse(details) ==
  [Resp(500, "Failed to create order", Undefined, Undefined, 0) EXCEPT !.details = details]

\* pricing.totalAmountINR of the response: subtotalINR * (1 + GST_RATE), in
\* hundredths of a rupee
totalAmountINR(subtotalINR) == subtotalINR * (100 + GST_RATE_PERCENT)

\* res.json({success: true, ...order, invoiceLink, pricing: {...}}): the
\* amount is that of the gateway order
createdResponse(order, invoiceLink, amount, subtotalINR) ==
  [Resp(200, "", Undefined, order, invoiceLink)
     EXCEPT !.amount = amount, !.totalAmountINR = totalAmountINR(subtotalINR)]

\* the checks before the gateway call: NoResp to go on, else the answer.  A
\* product type without an entry in addonTypeMap makes
\* createStandardizedPackageData throw, which the outer catch answers with 500.
createOrderPrecheck(hasPackageData, hasStudentData, package) ==
  IF ~hasPackageData \/ ~hasStudentData
  THEN createErrorResponse(400, "Missing package data or student data")
  ELSE IF getProductById(package.type, package.selectedProduct) = Null
  THEN createErrorResponse(400, "Product not found")
  ELSE LET standardizedData ==
             createStandardizedPackageData(package.type, package.selectedProduct,
                                           package.selectedAddon, package.duration)
       IN  IF standardizedData.error # ""
           THEN createCatchResponse({standardizedData.error})
           ELSE IF \/ standardizedData.pricing.programPrice = NaN
                   \/ standardizedData.pricing.subtotal = NaN
           THEN createErrorResponse(400, "Invalid pricing calculation")
           ELSE NoResp

\* the date-of-birth checks, which the handler makes after the gateway call
dateOfBirthError(dob) ==
  IF dob = "missing" THEN "Date of birth is required"
  ELSE IF dob = "invalid" THEN "Invalid date of birth format"
  ELSE ""

CreateOrderStart ==
  /\ creq.pc \in {"idle", "done"}
  /\ gatewayOrders < MaxOrders
  /\ \E body \in RequestBodies :
       LET hasPackageData == body[1]
           hasStudentData == body[2]
           package == body[3]
           resp == createOrderPrecheck(hasPackageData, hasStudentData, package)
       IN  creq' = IF resp = NoResp
                   THEN [IdleCreate EXCEPT
                           !.pc = "gateway",
                           !.selectedAddons = package.selectedAddon,
                           !.data = createStandardizedPackageData(
                                      package.type, package.selectedProduct,
                                      package.selectedAddon, package.duration)]
                   ELSE [IdleCreate EXCEPT !.pc = "done", !.resp = resp]
  /\ UNCHANGED <<gatewayOrders, students, vreq, lastAnswer, dispatched, fnVars, authVars>>

\* totalAmountINR = subtotalINR; amount: Math.round(totalAmountINR * 100)
orderAmount(standardizedData) == standardizedData.pricing.subtotal * 100

\* await razorpay.orders.create(options): the gateway creates the order, or
\* the call throws
CreateOrderGateway ==
  /\ creq.pc = "gateway"
  /\ \E ok \in BOOLEAN :
       IF ok
       THEN /\ gatewayOrders' = gatewayOrders + 1
            /\ creq' = [creq EXCEPT !.pc = "persist",
                                    !.amount = orderAmount(creq.data),
                                    !.order = OrderId(gatewayOrders + 1)]
       ELSE /\ gatewayOrders' = gatewayOrders
            /\ creq' = [IdleCreate EXCEPT !.pc = "done",
                          !.resp = createCatchResponse({"gateway"})]
  /\ UNCHANGED <<students, vreq, lastAnswer, dispatched, fnVars, authVars>>

\* await newStudent.save(): what makes it throw, {} when the document is
\* stored.  The validators run first, then the insert under the unique
\* indexes.
saveError(coll, doc, dbOk) ==
  IF ~validates(doc) THEN validationErrors(doc)
  ELSE IF ~insertAccepted(coll, doc) THEN {"E11000"}
  ELSE IF ~dbOk THEN {"MongoError"}
  ELSE {}

afterSave_ErrorSwallowed(saved) == "respond"

\* const savedStudent = await newStudent.save(): a rejected save throws into
\* the outer catch, an accepted one lets the handler go on to res.json
afterSave(saved) == IF saved THEN "respond" ELSE "catch"

\* agreedToTerms / certifiedInformation of studentData: true, false, absent
ConsentInputs == {<<TRUE, TRUE>>, <<TRUE, FALSE>>, <<FALSE, FALSE>>}

\* invoice number and link, date of birth, new Student({...}), await save(),
\* res.json({success: true, ...order, invoiceLink, ...}).  The validators
\* read neither the invoice number nor the link, so the draws and the
\* database decide the outcome only of a document the validators pass; for
\* any other the draws are fresh values.
CreateOrderPersist ==
  /\ creq.pc = "persist"
  /\ \E dob \in {"missing", "invalid", "valid"} :
       IF dateOfBirthError(dob) # ""
       THEN /\ creq' = [IdleCreate EXCEPT !.pc = "done", !.order = creq.order,
                          !.resp = createErrorResponse(400, dateOfBirthError(dob))]
            /\ students' = students
       ELSE \E agreed, certified \in ConsentInputs :
              LET numbers == {students[i].invoiceNumber : i \in 1..Len(students)}
                  links == {students[i].invoiceLink : i \in 1..Len(students)}
                  valid == validates(newStudent(0, creq.order, 0, 0,
                                                orFalse(agreed[1], agreed[2]),
                                                orFalse(certified[1], certified[2]),
                                                creq.data))
              IN  \E dbOk \in IF valid THEN BOOLEAN ELSE {TRUE},
                     invoiceNumber \in IF valid THEN Draws(numbers) ELSE {Fresh(numbers)},
                     invoiceLink \in IF valid THEN Draws(links) ELSE {Fresh(links)} :
                    LET fresh == newStudent(Len(students) + 1, creq.order, invoiceNumber,
                                            invoiceLink, orFalse(agreed[1], agreed[2]),
                                            orFalse(certified[1], certified[2]), creq.data)
                        doc == preSave(fresh, fresh, LatestDate(students))
                        error == saveError(students, doc, dbOk)
                    IN  /\ students' = IF error = {} THEN Append(students, doc) ELSE students
                        /\ creq' = [IdleCreate EXCEPT
                                      !.pc = "done",
                                      !.order = creq.order,
                                      !.resp = IF afterSave(error = {}) = "respond"
                                               THEN createdResponse(creq.order, invoiceLink, creq.amount,
                                                                    creq.data.pricing.subtotal)
                                               ELSE createCatchResponse(error)]
  /\ UNCHANGED <<gatewayOrders, vreq, lastAnswer, dispatched, fnVars, authVars>>

\* ------------------------------------------------------ GET /invoices/:id
\* student.gstRate || 18
viewGstRate(student) == IF student.gstRate = 0 THEN 18 ELSE student.gstRate

exclusiveOfGst_Truncates(inclusive, gstRate) == (100 * inclusive) \div (100 + gstRate)

\* Math.round(inclusive / gstMultiplier), gstMultiplier = 1 + gstRate / 100:
\* the whole number nearest to 100 * inclusive / (100 + gstRate), halves up
exclusiveOfGst(inclusive, gstRate) ==
  (200 * inclusive + 100 + gstRate) \div (2 * (100 + gstRate))

\* the amounts of the invoice view (without those of student.programUnitPrice,
\* which is no path of the schema and so undefined in every document read)
invoiceView(student) ==
  LET gstRate == viewGstRate(student)
      programPriceExclusiveGST == exclusiveOfGst(student.programPriceINR, gstRate)
      programGSTAmount == student.programPriceINR - programPriceExclusiveGST
      addonPriceExclusiveGST ==
        IF student.addonPriceINR # 0 THEN exclusiveOfGst(student.addonPriceINR, gstRate)
        ELSE 0
      addonGSTAmount ==
        IF student.addonPriceINR # 0 THEN student.addonPriceINR - addonPriceExclusiveGST
        ELSE 0
  IN  [gstRate |-> gstRate,
       programPriceINR |-> student.programPriceINR,
       programPriceExclusiveGST |-> programPriceExclusiveGST,
       programGSTAmount |-> programGSTAmount,
       addonPriceINR |-> student.addonPriceINR,
       addonPriceExclusiveGST |-> addonPriceExclusiveGST,
       addonGSTAmount |-> addonGSTAmount,
       subtotalExclusiveGST |-> programPriceExclusiveGST + addonPriceExclusiveGST,
       gstAmountINR |-> programGSTAmount + addonGSTAmount,
       subtotalINR |-> student.subtotalINR,
       totalINR |-> IF student.totalINR # 0 THEN student.totalINR ELSE student.subtotalINR,
       addonsData |-> student.addonsData]

\* res.json({success: true, invoice: {...}, student: {...}})
invoiceResponse(student) ==
  [Resp(200, "", Undefined, Undefined, student.invoiceLink)
     EXCEPT !.paymentStatus = student.paymentStatus, !.view = invoiceView(student)]

invoiceNotFoundResponse ==
  Resp(404, "Invoice not found or payment not completed", Undefined, Undefined, 0)

invoiceLookup_AnyStatus(coll, invoiceId) ==
  LET i == findByInvoiceLink(coll, invoiceId) IN
    IF i = 0 THEN invoiceNotFoundResponse ELSE invoiceResponse(coll[i])

\* if (!student || student.paymentStatus !== PAYMENT_STATUS.SUCCESS) -> 404
invoiceLookup(coll, invoiceId) ==
  LET i == findByInvoiceLink(coll, invoiceId) IN
    IF i = 0 \/ coll[i].paymentStatus # PAYMENT_STATUS.SUCCESS
    THEN invoiceNotFoundResponse
    ELSE invoiceResponse(coll[i])

\* the links a client may ask for: those stored, and one that is not
InvoiceGet ==
  /\ \E invoiceId \in Draws({students[i].invoiceLink : i \in 1..Len(students)}) :
       lastAnswer' = InvoiceAnswer(invoiceId, findByInvoiceLink(students, invoiceId) # 0,
                                   invoiceLookup(students, invoiceId))
  /\ UNCHANGED <<gatewayOrders, students, creq, vreq, dispatched, fnVars, authVars>>

\* ---------------------------------------------------- POST /invoices/send
SendAnswer(link, found, email, resp) ==
  [route |-> "send", order |-> Undefined, payment |-> Undefined,
   sig |-> TamperedSignature, link |-> link, found |-> found, saveFailed |-> FALSE,
   email |-> email, resp |-> resp]

\* studentEmail and invoiceLink are required; the record is looked up by its
\* link whatever its payment status; transporter.sendMail sends or throws
invoiceSend(coll, hasStudentEmail, invoiceLink, mailOk) ==
  IF ~hasStudentEmail \/ invoiceLink = 0
  THEN SendAnswer(0, FALSE, "none",
                  Resp(400, "Missing required fields: studentEmail, invoiceLink",
                       Undefined, Undefined, 0))
  ELSE IF findByInvoiceLink(coll, invoiceLink) = 0
  THEN SendAnswer(invoiceLink, FALSE, "none",
                  Resp(404, "Invoice not found", Undefined, Undefined, 0))
  ELSE IF ~mailOk
  THEN SendAnswer(invoiceLink, TRUE, "networkError",
                  Resp(500, "Failed to send invoice email", Undefined, Undefined, 0))
  ELSE SendAnswer(invoiceLink, TRUE, "sent",
                  Resp(200, "Invoice email sent successfully", Undefined, Undefined,
                       invoiceLink))

\* invoiceLink 0 is a body without the field; a body without studentEmail is
\* answered before its link is read, so it is drawn with one link only
InvoiceSend ==
  /\ \E invoiceLink \in {0} \cup Draws({students[i].invoiceLink : i \in 1..Len(students)}) :
       \E hasStudentEmail \in IF findByInvoiceLink(students, invoiceLink) = 0 /\ invoiceLink # 0
                                 THEN BOOLEAN ELSE {TRUE} :
         \E mailOk \in IF findByInvoiceLink(students, invoiceLink) # 0
                        THEN BOOLEAN ELSE {TRUE} :
           lastAnswer' = invoiceSend(students, hasStudentEmail, invoiceLink, mailOk)
  /\ UNCHANGED <<gatewayOrders, students, creq, vreq, dispatched, fnVars, authVars>>

\* ------------------------------------------------------ GET /admin/students
AdminAnswer(found, resp) ==
  [route |-> "admin", order |-> Undefined, payment |-> Undefined,
   sig |-> TamperedSignature, link |-> 0, found |-> found, saveFailed |-> FALSE,
   email |-> "none", resp |-> resp]

\* Student.countDocuments() and Student.find(): the page of students, or 500
\* when the database fails
adminList(coll, dbOk) ==
  IF dbOk
  THEN AdminAnswer(Len(coll) > 0,
                   Resp(200, "Students retrieved successfully", Undefined, Undefined, 0))
  ELSE AdminAnswer(FALSE, Resp(500, "Failed to fetch students", Undefined, Undefined, 0))

AdminList ==
  /\ \E dbOk \in BOOLEAN : lastAnswer' = adminList(students, dbOk)
  /\ UNCHANGED <<gatewayOrders, students, creq, vreq, dispatched, fnVars, authVars>>

\* ------------------------------------------------------------ AuthService
\* the status of the AppError subclasses, as globalErrorHandler answers them
AuthenticationError == HTTP_STATUS.UNAUTHORIZED

ValidationError == HTTP_STATUS.UNPROCESSABLE_ENTITY

NotFoundError == HTTP_STATUS.NOT_FOUND

ConflictError_BadRequest == HTTP_STATUS.BAD_REQUEST

ConflictError == HTTP_STATUS.CONFLICT

\* databaseErrorHandler: error.code === 11000 (duplicate key)
duplicateKeyError == HTTP_STATUS.CONFLICT

Emails == {"a@x", "b@x"}

\* the refresh tokens a client can send: one the server issued, or none of them
RefreshInputs == {d.token : d \in tokens} \cup {GarbageJwt}

\* one more request may be in flight
MayStart == BagCardinality(areq) < MaxInFlight

\* the request r leaves, or moves on as request s
Leave(r) == areq (-) SetToBag({r})

Move(r, s) == (areq (-) SetToBag({r})) (+) SetToBag({s})

\* a second passes
Tick ==
  /\ clock < MaxAuthClock
  /\ clock' = clock + 1
  /\ UNCHANGED <<users, tokens, areq, authAnswer, refreshed, invalidated>>
  /\ UNCHANGED <<gatewayOrders, students, creq, vreq, lastAnswer, dispatched, fnVars>>

\* AuthService.login: the checks on the user, then the new refresh token is saved
Login ==
  /\ \E email \in Emails, isPasswordValid \in BOOLEAN :
       LET user == findByEmail(users, email)
           issued == generateTokens(user, users[user], clock)
       IN  IF user = 0 \/ users[user].status # USER_STATUS.ACTIVE \/ ~isPasswordValid
           THEN /\ authAnswer' = AuthAnswer("login", AuthenticationError, user, email, NoJwt, NoTokens, TRUE)
                /\ UNCHANGED tokens
           ELSE /\ tokens' = saveRefreshToken(tokens, user, issued.refreshToken)
                /\ authAnswer' = IF tokenSaved(tokens, issued.refreshToken)
                                 THEN AuthAnswer("login", HTTP_STATUS.OK, user, email, NoJwt, issued, TRUE)
                                 ELSE AuthAnswer("login", duplicateKeyError, user, email, NoJwt, NoTokens, TRUE)
  /\ UNCHANGED <<users, areq, clock, refreshed, invalidated>>
  /\ UNCHANGED <<gatewayOrders, students, creq, vreq, lastAnswer, dispatched, fnVars>>

\* AuthService.refreshToken, first await: Token.findValidToken
RefreshFind ==
  /\ MayStart
  /\ \E refreshToken \in RefreshInputs :
       LET found == findValidToken(tokens, refreshToken, TOKEN_TYPES.REFRESH, clock)
       IN  IF found = {}
           THEN /\ authAnswer' = AuthAnswer("refresh", AuthenticationError, 0, "", refreshToken, NoTokens, TRUE)
                /\ UNCHANGED areq
           ELSE /\ \E tokenDoc \in found :
                     areq' = areq (+) SetToBag({AuthReq("refresh", "user", tokenDoc.userId, "", "", refreshToken, NoTokens)})
                /\ UNCHANGED authAnswer
  /\ UNCHANGED <<users, tokens, clock, refreshed, invalidated>>
  /\ UNCHANGED <<gatewayOrders, students, creq, vreq, lastAnswer, dispatched, fnVars>>

\* second await: User.findById, the status check, then generateTokens
RefreshUser ==
  /\ \E r \in BagToSet(areq) :
       /\ r.op = "refresh" /\ r.pc = "user"
       /\ LET user == findById(users, r.userId)
          IN  IF user = 0 \/ users[user].status # USER_STATUS.ACTIVE
              THEN /\ authAnswer' = AuthAnswer("refresh", AuthenticationError, r.userId, "", r.token, NoTokens, TRUE)
                   /\ areq' = Leave(r)
              ELSE /\ areq' = Move(r, [r EXCEPT !.pc = "revoke", !.issued = generateTokens(user, users[user], clock)])
                   /\ UNCHANGED authAnswer
  /\ UNCHANGED <<users, tokens, clock, refreshed, invalidated>>
  /\ UNCHANGED <<gatewayOrders, students, creq, vreq, lastAnswer, dispatched, fnVars>>

\* third await: tokenDoc.revoke()
RefreshRevoke ==
  /\ \E r \in BagToSet(areq) :
       /\ r.op = "refresh" /\ r.pc = "revoke"
       /\ tokens' = revoke(tokens, [token |-> r.token])
       /\ areq' = Move(r, [r EXCEPT !.pc = "save"])
  /\ UNCHANGED <<users, authAnswer, clock, refreshed, invalidated>>
  /\ UNCHANGED <<gatewayOrders, students, creq, vreq, lastAnswer, dispatched, fnVars>>

\* fourth await: saveRefreshToken, then the new tokens are returned
RefreshSave ==
  /\ \E r \in BagToSet(areq) :
       /\ r.op = "refresh" /\ r.pc = "save"
       /\ tokens' = saveRefreshToken(tokens, r.userId, r.issued.refreshToken)
       /\ areq' = Leave(r)
       /\ IF tokenSaved(tokens, r.issued.refreshToken)
          THEN /\ authAnswer' = AuthAnswer("refresh", HTTP_STATUS.OK, r.userId, "", r.token, r.issued, TRUE)
               /\ refreshed' = refreshed (+) SetToBag({r.token})
               /\ invalidated' = invalidated \cup {r.token}
          ELSE /\ authAnswer' = AuthAnswer("refresh", duplicateKeyError, r.userId, "", r.token, NoTokens, TRUE)
               /\ UNCHANGED <<refreshed, invalidated>>
  /\ UNCHANGED <<users, clock>>
  /\ UNCHANGED <<gatewayOrders, students, creq, vreq, lastAnswer, dispatched, fnVars>>

\* AuthService.logout(userId, refreshToken) of the authenticated user
Logout ==
  /\ \E userId \in UserIds(users), refreshToken \in RefreshInputs \cup {NoJwt} :
       /\ tokens' = IF refreshToken # NoJwt
                    THEN revokeOne(tokens, refreshToken, userId)
                    ELSE revokeAllUserTokens(tokens, userId, "user_logout")
       /\ authAnswer' = AuthAnswer("logout", HTTP_STATUS.OK, userId, "", refreshToken, NoTokens, TRUE)
       /\ invalidated' = invalidated \cup {d.token : d \in {e \in tokens : e.token = refreshToken /\ e.userId = userId}}
  /\ UNCHANGED <<users, areq, clock, refreshed>>
  /\ UNCHANGED <<gatewayOrders, students, creq, vreq, lastAnswer, dispatched, fnVars>>

\* AuthService.changePassword up to user.save()
ChangePassword ==
  /\ MayStart
  /\ \E userId \in UserIds(users), isCurrentPasswordValid \in BOOLEAN :
       IF ~isCurrentPasswordValid
       THEN /\ authAnswer' = AuthAnswer("changePassword", AuthenticationError, userId, "", NoJwt, NoTokens, TRUE)
            /\ UNCHANGED areq
       ELSE /\ areq' = areq (+) SetToBag({AuthReq("changePassword", "revoke", userId, "", "", NoJwt, NoTokens)})
            /\ UNCHANGED authAnswer
  /\ UNCHANGED <<users, tokens, clock, refreshed, invalidated>>
  /\ UNCHANGED <<gatewayOrders, students, creq, vreq, lastAnswer, dispatched, fnVars>>

\* AuthService.resetPassword up to user.resetPassword(newPassword); user is the
\* _id of the user the reset token belongs to, 0 when it belongs to none
ResetPassword ==
  /\ MayStart
  /\ \E user \in UserIds(users) \cup {0} :
       IF user = 0
       THEN /\ authAnswer' = AuthAnswer("resetPassword", ValidationError, 0, "", NoJwt, NoTokens, TRUE)
            /\ UNCHANGED areq
       ELSE /\ areq' = areq (+) SetToBag({AuthReq("resetPassword", "revoke", user, "", "", NoJwt, NoTokens)})
            /\ UNCHANGED authAnswer
  /\ UNCHANGED <<users, tokens, clock, refreshed, invalidated>>
  /\ UNCHANGED <<gatewayOrders, students, creq, vreq, lastAnswer, dispatched, fnVars>>

\* last await of changePassword and resetPassword: Token.revokeAllUserTokens
PasswordRevoke ==
  /\ \E r \in BagToSet(areq) :
       /\ r.op \in {"changePassword", "resetPassword"} /\ r.pc = "revoke"
       /\ tokens' = revokeAllUserTokens(tokens, r.userId, "password_change")
       /\ areq' = Leave(r)
       /\ authAnswer' = AuthAnswer(r.op, HTTP_STATUS.OK, r.userId, "", NoJwt, NoTokens, TRUE)
       /\ invalidated' = invalidated \cup {d.token : d \in {e \in tokens : e.userId = r.userId}}
  /\ UNCHANGED <<users, clock, refreshed>>
  /\ UNCHANGED <<gatewayOrders, students, creq, vreq, lastAnswer, dispatched, fnVars>>

\* ------------------------------------------- authenticate and authorize
Roles == {USER_ROLES.ADMIN, USER_ROLES.USER, USER_ROLES.MODERATOR}

\* authenticate: 0 when next() is called, else the status it answers
authenticate(token, at) ==
  IF token = NoJwt THEN HTTP_STATUS.UNAUTHORIZED
  ELSE IF jwtVerify(token, JWT_SECRET, at) # "ok" THEN HTTP_STATUS.UNAUTHORIZED
  ELSE IF token.type # TOKEN_TYPES.ACCESS THEN HTTP_STATUS.UNAUTHORIZED
  ELSE 0

authorize_NotChecked(roles, token) == 0

\* authorize(...roles) on req.user, the payload of the verified token
authorize(roles, token) ==
  IF token.role \notin roles THEN HTTP_STATUS.FORBIDDEN ELSE 0

requireAdmin(token) == authorize({USER_ROLES.ADMIN}, token)

requireAdminOrModerator(token) == authorize({USER_ROLES.ADMIN, USER_ROLES.MODERATOR}, token)

requireOwnershipOrAdmin(token, id) ==
  IF token.role = USER_ROLES.ADMIN \/ token.userId = id THEN 0 ELSE HTTP_STATUS.FORBIDDEN

\* ------------------------------------------------------ routes/users.js
AdminRoutes ==
  {"createUser", "getUserStats", "bulkUpdateUsers", "exportUsers", "updateUser",
   "deleteUser", "permanentlyDeleteUser", "suspendUser", "activateUser", "changeUserRole"}

ModeratorRoutes == {"getUsers", "searchUsers", "getUsersByRole"}

OwnerRoutes == {"getUserById", "getUserActivity"}

UserRoutes == AdminRoutes \cup ModeratorRoutes \cup OwnerRoutes

\* the guard the router puts between authenticate and the route's handler
routeGuard(route, token, id) ==
  IF route \in AdminRoutes THEN requireAdmin(token)
  ELSE IF route \in ModeratorRoutes THEN requireAdminOrModerator(token)
  ELSE requireOwnershipOrAdmin(token, id)

\* router.use(authenticate), then the route's guard: 0 when the request goes
\* on to the validate* middleware and the handler, else the status answered.
\* The requests of the model pass the Joi schemas.
beforeHandler(route, token, id, at) ==
  IF authenticate(token, at) # 0 THEN authenticate(token, at)
  ELSE IF routeGuard(route, token, id) # 0 THEN routeGuard(route, token, id)
  ELSE 0

\* Joi.string().email().lowercase(): the email as the handler receives it
lowercase(email) == IF email = "A@x" THEN "a@x" ELSE email

EmailInputs == Emails \cup {"A@x"}

\* user.save() under the unique index on email
emailFree(collection, email, self) ==
  \A i \in UserIds(collection) : i = self \/ collection[i].email # email

\* the routes whose handler takes a user id
IdRoutes ==
  {"getUserById", "getUserActivity", "updateUser", "deleteUser",
   "permanentlyDeleteUser", "suspendUser", "activateUser", "changeUserRole"}

\* UserService: the status the handler answers
handlerStatus(route, collection, id, email) ==
  IF route \in IdRoutes /\ findById(collection, id) = 0 THEN NotFoundError
  ELSE IF route = "updateUser" /\ email # collection[id].email /\ findByEmail(collection, email) # 0 THEN ConflictError
  ELSE IF route \in {"deleteUser", "permanentlyDeleteUser"} THEN HTTP_STATUS.NO_CONTENT
  ELSE HTTP_STATUS.OK

\* UserService: the collection after the handler
handlerWrites(route, collection, id, email, role) ==
  IF handlerStatus(route, collection, id, email) \notin {HTTP_STATUS.OK, HTTP_STATUS.NO_CONTENT} THEN collection
  ELSE IF route = "updateUser" THEN [collection EXCEPT ![id].email = email]
  ELSE IF route = "deleteUser" THEN [collection EXCEPT ![id].status = USER_STATUS.INACTIVE]
  ELSE IF route = "permanentlyDeleteUser" THEN [collection EXCEPT ![id] = NoUser]
  ELSE IF route = "suspendUser" THEN [collection EXCEPT ![id].status = USER_STATUS.SUSPENDED]
  ELSE IF route = "activateUser" THEN [collection EXCEPT ![id].status = USER_STATUS.ACTIVE]
  ELSE IF route = "changeUserRole" THEN [collection EXCEPT ![id].role = role]
  ELSE collection

\* the account the server is set up with
seedAdmin == User("a@x", USER_ROLES.ADMIN, USER_STATUS.ACTIVE)

\* the Authorization headers a client can send: none, the admin's refresh
\* token (signed with the other secret), an expired access token of the admin,
\* or the access token of an account
AccessInputs ==
  {NoJwt,
   jwtSign(1, seedAdmin.email, seedAdmin.role, TOKEN_TYPES.REFRESH, JWT_REFRESH_SECRET, 0, JWT_REFRESH_EXPIRE),
   jwtSign(1, seedAdmin.email, seedAdmin.role, TOKEN_TYPES.ACCESS, JWT_SECRET, 0 - JWT_EXPIRE - 1, JWT_EXPIRE)}
  \cup {jwtSign(i, users[i].email, users[i].role, TOKEN_TYPES.ACCESS, JWT_SECRET, 0, JWT_EXPIRE) : i \in UserIds(users)}

\* the ids a request names: an account or an id no account has; the requests
\* of the model do not write to the admin account, and one that authenticate
\* refuses names no id
TargetIds(route, token) ==
  IF route \notin IdRoutes \/ authenticate(token, clock) # 0 THEN {0}
  ELSE IF route \in OwnerRoutes THEN 1..(Len(users) + 1)
  ELSE 2..(Len(users) + 1)

\* a request to a route of the user router other than POST /users
UserRequest ==
  /\ \E route \in UserRoutes \ {"createUser"}, token \in AccessInputs :
     \E id \in TargetIds(route, token) :
     \E email \in IF route = "updateUser" THEN Emails ELSE {""} :
     \E role \in IF route = "changeUserRole" THEN Roles ELSE {""} :
       LET blocked == beforeHandler(route, token, id, clock)
       IN  IF blocked # 0
           THEN /\ authAnswer' = AuthAnswer(route, blocked, id, "", token, NoTokens, FALSE)
                /\ UNCHANGED users
           ELSE /\ authAnswer' = AuthAnswer(route, handlerStatus(route, users, id, email), id, "", token, NoTokens, TRUE)
                /\ users' = handlerWrites(route, users, id, email, role)
  /\ UNCHANGED <<tokens, areq, clock, refreshed, invalidated>>
  /\ UNCHANGED <<gatewayOrders, students, creq, vreq, lastAnswer, dispatched, fnVars>>

\* POST /users up to UserService.createUser's User.findByEmail
CreateUserCheck ==
  /\ MayStart
  /\ \E token \in AccessInputs, input \in EmailInputs, role \in {USER_ROLES.MODERATOR} :
       LET blocked == beforeHandler("createUser", token, 0, clock)
           email == lowercase(input)
       IN  IF blocked # 0
           THEN /\ authAnswer' = AuthAnswer("createUser", blocked, 0, input, token, NoTokens, FALSE)
                /\ UNCHANGED areq
           ELSE IF findByEmail(users, email) # 0
           THEN /\ authAnswer' = AuthAnswer("createUser", ConflictError, 0, input, token, NoTokens, TRUE)
                /\ UNCHANGED areq
           ELSE /\ areq' = areq (+) SetToBag({AuthReq("createUser", "save", 0, email, role, token, NoTokens)})
                /\ UNCHANGED authAnswer
  /\ UNCHANGED <<users, tokens, clock, refreshed, invalidated>>
  /\ UNCHANGED <<gatewayOrders, students, creq, vreq, lastAnswer, dispatched, fnVars>>

\* POST /auth/register up to AuthService.register's User.findByEmail
RegisterCheck ==
  /\ MayStart
  /\ \E input \in EmailInputs :
       LET email == lowercase(input)
       IN  IF findByEmail(users, email) # 0
           THEN /\ authAnswer' = AuthAnswer("register", ConflictError, 0, input, NoJwt, NoTokens, TRUE)
                /\ UNCHANGED areq
           ELSE /\ areq' = areq (+) SetToBag({AuthReq("register", "save", 0, email, USER_ROLES.USER, NoJwt, NoTokens)})
                /\ UNCHANGED authAnswer
  /\ UNCHANGED <<users, tokens, clock, refreshed, invalidated>>
  /\ UNCHANGED <<gatewayOrders, students, creq, vreq, lastAnswer, dispatched, fnVars>>

\* `await user.save()` of register and of createUser, and what follows it:
\* register signs the new user's tokens and saves the refresh token
SaveUser ==
  /\ \E r \in BagToSet(areq) :
       /\ r.op \in {"register", "createUser"} /\ r.pc = "save"
       /\ emailFree(users, r.email, 0) => Len(users) < MaxUsers + 1
       /\ areq' = Leave(r)
       /\ IF ~emailFree(users, r.email, 0)
          THEN /\ authAnswer' = AuthAnswer(r.op, duplicateKeyError, 0, r.email, r.token, NoTokens, TRUE)
               /\ UNCHANGED <<users, tokens>>
          ELSE LET userId == Len(users) + 1
                   user == User(r.email, r.role, USER_STATUS.ACTIVE)
                   issued == IF r.op = "register" THEN generateTokens(userId, user, clock) ELSE NoTokens
               IN  /\ users' = Append(users, user)
                   /\ tokens' = IF r.op = "register" THEN saveRefreshToken(tokens, userId, issued.refreshToken) ELSE tokens
                   /\ authAnswer' = AuthAnswer(r.op, HTTP_STATUS.CREATED, userId, r.email, r.token, issued, TRUE)
  /\ UNCHANGED <<clock, refreshed, invalidated>>
  /\ UNCHANGED <<gatewayOrders, students, creq, vreq, lastAnswer, dispatched, fnVars>>

\* ---------------------------------------------------------- specifications
Next ==
  \/ CreateOrderStart
  \/ CreateOrderGateway
  \/ CreateOrderPersist
  \/ VerifyStart
  \/ \E r \in BagToSet(vreq) : VerifyFind(r)
  \/ \E r \in BagToSet(vreq) : VerifyUpdate(r)
  \/ \E r \in BagToSet(vreq) : VerifyEmail(r)
  \/ InvoiceGet

Spec == Init /\ [][Next]_vars

\* the payment and invoice routes together with the routes that only read
\* the collection
NextRoutes ==
  \/ CreateOrderStart
  \/ CreateOrderGateway
  \/ CreateOrderPersist
  \/ VerifyStart
  \/ \E r \in BagToSet(vreq) : VerifyFind(r)
  \/ \E r \in BagToSet(vreq) : VerifyUpdate(r)
  \/ \E r \in BagToSet(vreq) : VerifyEmail(r)
  \/ InvoiceGet
  \/ InvoiceSend
  \/ AdminList

SpecRoutes == Init /\ [][NextRoutes]_vars

\* clients that wait for the answer of one verify call before the next
VerifyStartSequential == vreq = EmptyBag /\ VerifyStart

NextSequential ==
  \/ CreateOrderStart
  \/ CreateOrderGateway
  \/ CreateOrderPersist
  \/ VerifyStartSequential
  \/ \E r \in BagToSet(vreq) : VerifyFind(r)
  \/ \E r \in BagToSet(vreq) : VerifyUpdate(r)
  \/ \E r \in BagToSet(vreq) : VerifyEmail(r)
  \/ InvoiceGet

SpecSequential == Init /\ [][NextSequential]_vars

\* the signature check on its own, over every pair of id strings of at most
\* MaxIdLen characters (the separator among them) and every signature an
\* HMAC under the secret or under another key gives for such a pair
SigChars == {"A", "|"}

SigIds == UNION {[1..n -> SigChars] : n \in 1..MaxIdLen}

SigSignatures ==
  {Hmac(k, body_string(o, p)) : k \in {RAZORPAY_KEY_SECRET, "another_key"},
                                o \in SigIds, p \in SigIds}
    \cup {TamperedSignature}

SigInit ==
  /\ gatewayOrders = 0
  /\ students = <<>>
  /\ creq = IdleCreate
  /\ vreq = EmptyBag
  /\ lastAnswer = NoAnswer
  /\ dispatched = [o \in GatewayOrderIds |-> 0]
  /\ sigIn \in [order : SigIds, payment : SigIds, sig : SigSignatures]
  /\ sigOut = "none"
  /\ fnIn = NoFn
  /\ fnOut = NoFn
  /\ AuthIdle

SigCheck ==
  /\ sigOut = "none"
  /\ sigOut' = IF isSignatureValid(sigIn.order, sigIn.payment, sigIn.sig)
               THEN "accepted" ELSE "rejected"
  /\ UNCHANGED <<gatewayOrders, students, creq, vreq, lastAnswer, dispatched,
                 sigIn, fnIn, fnOut, authVars>>

SpecSignature == SigInit /\ [][SigCheck]_vars

\* the pricing calculator on its own, over every product type, product id,
\* list of at most MaxAddons add-on ids and duration of the sets below: ids
\* and types of the catalog, and some it does not hold
CalcTypes == {"programs", "freelancer", "programAddons", "courses"}

CalcProducts == {"fullstack", "bootcamp", "starter", "mentor", "ghost"}

CalcAddonIds == {"mentor", "kit", "badge", "ghost"}

CalcAddonLists == UNION {[1..n -> CalcAddonIds] : n \in 0..MaxAddons}

CalcDurations == (1..MaxDuration) \cup {NaN}

PricingInit ==
  /\ gatewayOrders = 0
  /\ students = <<>>
  /\ creq = IdleCreate
  /\ vreq = EmptyBag
  /\ lastAnswer = NoAnswer
  /\ dispatched = [o \in GatewayOrderIds |-> 0]
  /\ sigIn = NoSigIn
  /\ sigOut = "none"
  /\ fnIn \in {Package(type, product, addons, duration) :
                 type \in CalcTypes, product \in CalcProducts,
                 addons \in CalcAddonLists, duration \in CalcDurations}
  /\ fnOut = NoFn
  /\ AuthIdle

Calculate ==
  /\ ~fnOut.done
  /\ fnOut' = Result(createStandardizedPackageData(fnIn.type, fnIn.selectedProduct,
                                                    fnIn.selectedAddon, fnIn.duration))
  /\ UNCHANGED <<gatewayOrders, students, creq, vreq, lastAnswer, dispatched,
                 sigIn, sigOut, fnIn, authVars>>

SpecPricing == PricingInit /\ [][Calculate]_vars

\* the invoice view on its own, over the stored orders of every program
\* price, add-on price and GST rate of the sets below.  No amount of these
\* sets divided by 1 + rate / 100 ends in .5, where Math.round would depend
\* on the rounding of the division.
MaxAmount == 12

ViewAmounts == (0..MaxAmount) \cup {59, 100, 500, 1000, 1200}

ViewGstRates == {0, 5, 18}

\* a stored order of these prices: subtotal, GST amount and total as the
\* schema validators demand
storedOrder(programPriceINR, addonPriceINR, gstRate) ==
  LET subtotal == programPriceINR + addonPriceINR
      gst == (subtotal * gstRate) \div 100
  IN  [storedStudent(1) EXCEPT
         !.paymentStatus = PAYMENT_STATUS.SUCCESS,
         !.programPriceINR = programPriceINR,
         !.addonPriceINR = addonPriceINR,
         !.subtotalINR = subtotal,
         !.gstRate = gstRate,
         !.gstAmountINR = gst,
         !.totalINR = subtotal + gst]

ViewInit ==
  /\ gatewayOrders = 0
  /\ students = <<>>
  /\ creq = IdleCreate
  /\ vreq = EmptyBag
  /\ lastAnswer = NoAnswer
  /\ dispatched = [o \in GatewayOrderIds |-> 0]
  /\ sigIn = NoSigIn
  /\ sigOut = "none"
  /\ fnIn \in {storedOrder(p, a, r) : p \in ViewAmounts, a \in ViewAmounts, r \in ViewGstRates}
  /\ fnOut = NoFn
  /\ AuthIdle

View ==
  /\ ~fnOut.done
  /\ fnOut' = Result(invoiceView(fnIn))
  /\ UNCHANGED <<gatewayOrders, students, creq, vreq, lastAnswer, dispatched,
                 sigIn, sigOut, fnIn, authVars>>

SpecInvoiceView == ViewInit /\ [][View]_vars

\* save() of a new document on its own, over the collections the server may
\* start on and the documents create-order builds for a fresh gateway order,
\* with the GST amount and total as create-order leaves them or as the
\* schema demands them
withGst(doc) ==
  LET gst == (doc.subtotalINR * doc.gstRate) \div 100
  IN  [doc EXCEPT !.gstAmountINR = gst, !.totalINR = doc.subtotalINR + gst]

StoreDocuments(coll) ==
  LET built ==
        {newStudent(Len(coll) + 1, OrderId(Len(coll) + 1), invoiceNumber, invoiceLink,
                    orFalse(agreed[1], agreed[2]), orFalse(certified[1], certified[2]),
                    createStandardizedPackageData(package.type, package.selectedProduct,
                                                  package.selectedAddon, package.duration)) :
           invoiceNumber \in Draws({coll[i].invoiceNumber : i \in 1..Len(coll)}),
           invoiceLink \in Draws({coll[i].invoiceLink : i \in 1..Len(coll)}),
           agreed \in ConsentInputs, certified \in ConsentInputs,
           package \in {q \in RequestPackages :
                          createOrderPrecheck(TRUE, TRUE, q) = NoResp}}
  IN  built \cup {withGst(doc) : doc \in built}

StoreInit ==
  /\ \E n \in 0..MaxOrders :
       /\ gatewayOrders = n + 1
       /\ students = storedStudents(n)
       /\ fnIn \in StoreDocuments(storedStudents(n))
  /\ creq = IdleCreate
  /\ vreq = EmptyBag
  /\ lastAnswer = NoAnswer
  /\ dispatched = [o \in GatewayOrderIds |-> 0]
  /\ sigIn = NoSigIn
  /\ sigOut = "none"
  /\ fnOut = NoFn
  /\ AuthIdle

SaveNew ==
  /\ ~fnOut.done
  /\ \E dbOk \in BOOLEAN :
       LET doc == preSave(fnIn, fnIn, LatestDate(students))
           error == saveError(students, doc, dbOk)
       IN  /\ fnOut' = Result(error)
           /\ students' = IF error = {} THEN Append(students, doc) ELSE students
  /\ UNCHANGED <<gatewayOrders, creq, vreq, lastAnswer, dispatched, sigIn, sigOut, fnIn, authVars>>

SpecStore == StoreInit /\ [][SaveNew]_vars

\* the amounts of one valid create-order request: what the gateway is asked
\* to charge, what the document holds and what the response reports
TotalsInit ==
  /\ gatewayOrders = 0
  /\ students = <<>>
  /\ creq = IdleCreate
  /\ vreq = EmptyBag
  /\ lastAnswer = NoAnswer
  /\ dispatched = [o \in GatewayOrderIds |-> 0]
  /\ sigIn = NoSigIn
  /\ sigOut = "none"
  /\ fnIn \in {package \in {Package(type, product, addons, duration) :
                              type \in CalcTypes, product \in CalcProducts,
                              addons \in CalcAddonLists, duration \in CalcDurations} :
                 createOrderPrecheck(TRUE, TRUE, package) = NoResp}
  /\ fnOut = NoFn
  /\ AuthIdle

Totals ==
  /\ ~fnOut.done
  /\ LET standardizedData ==
           createStandardizedPackageData(fnIn.type, fnIn.selectedProduct,
                                         fnIn.selectedAddon, fnIn.duration)
         amount == orderAmount(standardizedData)
     IN  fnOut' = Result([amount |-> amount,
                          student |-> newStudent(1, OrderId(1), 1, 1, TRUE, TRUE,
                                                 standardizedData),
                          resp |-> createdResponse(OrderId(1), 1, amount,
                                                   standardizedData.pricing.subtotal)])
  /\ UNCHANGED <<gatewayOrders, students, creq, vreq, lastAnswer, dispatched,
                 sigIn, sigOut, fnIn, authVars>>

SpecTotals == TotalsInit /\ [][Totals]_vars

\* the token service on its own: MaxUsers active accounts, each with or
\* without a session whose refresh token was signed before the first second
seededUsers(n) ==
  [i \in 1..n |-> User(IF i = 1 THEN "a@x" ELSE IF i = 2 THEN "b@x" ELSE "c@x", USER_ROLES.USER, USER_STATUS.ACTIVE)]

RefreshInit ==
  /\ gatewayOrders = 0
  /\ students = <<>>
  /\ creq = IdleCreate
  /\ vreq = EmptyBag
  /\ lastAnswer = NoAnswer
  /\ dispatched = [o \in GatewayOrderIds |-> 0]
  /\ sigIn = NoSigIn
  /\ sigOut = "none"
  /\ fnIn = NoFn
  /\ fnOut = NoFn
  /\ users = seededUsers(MaxUsers)
  /\ tokens \in SUBSET {TokenDoc(generateTokens(i, seededUsers(MaxUsers)[i], -1).refreshToken, i) : i \in 1..MaxUsers}
  /\ areq = EmptyBag
  /\ authAnswer = NoAuthAnswer
  /\ clock = 0
  /\ refreshed = EmptyBag
  /\ invalidated = {}

NextRefresh ==
  \/ Tick
  \/ Login
  \/ RefreshFind
  \/ RefreshUser
  \/ RefreshRevoke
  \/ RefreshSave
  \/ Logout
  \/ ChangePassword
  \/ ResetPassword
  \/ PasswordRevoke

SpecRefresh == RefreshInit /\ [][NextRefresh]_vars

\* account management on its own: the server starts with its admin account,
\* or with no account yet
UsersInit ==
  /\ gatewayOrders = 0
  /\ students = <<>>
  /\ creq = IdleCreate
  /\ vreq = EmptyBag
  /\ lastAnswer = NoAnswer
  /\ dispatched = [o \in GatewayOrderIds |-> 0]
  /\ sigIn = NoSigIn
  /\ sigOut = "none"
  /\ fnIn = NoFn
  /\ fnOut = NoFn
  /\ users \in {<<>>, <<seedAdmin>>}
  /\ tokens = {}
  /\ areq = EmptyBag
  /\ authAnswer = NoAuthAnswer
  /\ clock = 0
  /\ refreshed = EmptyBag
  /\ invalidated = {}

NextUsers ==
  \/ RegisterCheck
  \/ CreateUserCheck
  \/ SaveUser
  \/ UserRequest

SpecUsers == UsersInit /\ [][NextUsers]_vars

\* ------------------------------------------------------------------ claims
\* the signature the gateway computes for a callback: HMAC-SHA256 under the
\* shared secret of orderId, "|", paymentId
GatewaySignature(o, p) == <<"hmac-sha256", RAZORPAY_KEY_SECRET, o \o <<"|">> \o p>>

ValidlySigned(a) == a.sig = GatewaySignature(a.order, a.payment)

Records == {students[i] : i \in 1..Len(students)}

RecordOf(o) == students[findByRazorpayOrderId(students, o)]

\* verify requests for order o whose handler stands at pc
InFlight(pc, o) ==
  LET E == {r \in BagToSet(vreq) : r.pc = pc /\ r.order = o}
  IN  BagCardinality([r \in E |-> vreq[r]])

\* a verify request left the bag without a successor: its call was answered
\* in this step
VerifyAnswered == BagCardinality(vreq') < BagCardinality(vreq)

\* request r took a step
Stepped(r) == CopiesIn(r, vreq') < CopiesIn(r, vreq)

\* C1: when the verify calls for an order come one after the other, the
\* invoice email is dispatched at most once for the order, by the call that
\* moved it to SUCCESS; a later call finds SUCCESS and answers "already
\* processed" without a dispatch.
C1_SequentialDispatchAtMostOnce ==
  /\ \A o \in GatewayOrderIds :
       /\ dispatched[o] <= 1
       /\ dispatched[o] = 1 => StoredStatus(o) = PAYMENT_STATUS.SUCCESS
  /\ lastAnswer.resp.message = "Payment already processed" => lastAnswer.email = "none"

C1_Witness ==
  \E o \in GatewayOrderIds :
    /\ dispatched[o] = 1
    /\ lastAnswer.route = "verify"
    /\ lastAnswer.order = o
    /\ lastAnswer.resp.message = "Payment already processed"

\* C2: when verify calls for one PROCESSING order interleave, at most one of
\* them writes the PROCESSING -> SUCCESS transition and at most one invoice
\* email is dispatched for the order.
C2_AtMostOneTransitionAndEmail ==
  \A o \in GatewayOrderIds :
    /\ dispatched[o] + InFlight("email", o) <= 1
    /\ dispatched[o] <= 1

\* C3: once a record's paymentDate is set, no step changes it, whatever the
\* interleaving of the verify calls.
C3_PaymentDateNeverChanges ==
  [][\A i \in 1..Len(students) :
       students[i].paymentDate # NoDate
         => students'[i].paymentDate = students[i].paymentDate]_vars

\* C4: a verify call whose signature is not the gateway's is answered 400
\* "Invalid signature" before any lookup: it never reaches the database read,
\* the write or the email, and its step changes neither the records nor the
\* dispatch count.
C4_InvalidSignatureChangesNothing ==
  /\ [](/\ \A r \in BagToSet(vreq) : ValidlySigned(r)
        /\ (lastAnswer.route = "verify" /\ ~ValidlySigned(lastAnswer))
             => /\ lastAnswer.resp.status = 400
                /\ lastAnswer.resp.message = "Invalid signature")
  /\ [][(/\ lastAnswer' # lastAnswer
         /\ lastAnswer'.route = "verify"
         /\ ~ValidlySigned(lastAnswer'))
          => /\ students' = students
             /\ dispatched' = dispatched
             /\ vreq' = vreq]_vars

\* an invalid call was rejected while the order is PROCESSING and a validly
\* signed call for the same order is on its way to the write
C4_Witness ==
  /\ lastAnswer.route = "verify"
  /\ ~ValidlySigned(lastAnswer)
  /\ lastAnswer.resp.status = 400
  /\ StoredStatus(lastAnswer.order) = PAYMENT_STATUS.PROCESSING
  /\ InFlight("update", lastAnswer.order) = 1

\* C5 as stated: the check accepts exactly the signature recomputed from the
\* call's own ids, and a signature computed for any other (orderId,
\* paymentId) pair is rejected.
C5_OtherPairAlwaysRejected ==
  sigOut # "none" =>
    /\ sigOut = "accepted" <=> sigIn.sig = GatewaySignature(sigIn.order, sigIn.payment)
    /\ \A o \in SigIds, p \in SigIds :
         (<<o, p>> # <<sigIn.order, sigIn.payment>> /\ sigIn.sig = GatewaySignature(o, p))
           => sigOut = "rejected"

\* a character of the id is the separator of the signed string
HasSeparator(id) == \E i \in 1..Len(id) : id[i] = "|"

\* C5: the check accepts exactly the signature recomputed from the call's own
\* ids; a signature computed for another (orderId, paymentId) pair is
\* rejected when the two pairs give different strings orderId|paymentId,
\* which they do whenever no id contains "|".
C5_SignatureOfOwnStringOnly ==
  sigOut # "none" =>
    /\ sigOut = "accepted" <=> sigIn.sig = GatewaySignature(sigIn.order, sigIn.payment)
    /\ \A o \in SigIds, p \in SigIds :
         (/\ <<o, p>> # <<sigIn.order, sigIn.payment>>
          /\ sigIn.sig = GatewaySignature(o, p)
          /\ \/ o \o <<"|">> \o p # sigIn.order \o <<"|">> \o sigIn.payment
             \/ ~(HasSeparator(o) \/ HasSeparator(p) \/ HasSeparator(sigIn.order)
                    \/ HasSeparator(sigIn.payment)))
           => sigOut = "rejected"

\* a signature computed for another pair of ids was presented and rejected
C5_Witness ==
  /\ sigOut = "rejected"
  /\ \E o \in SigIds, p \in SigIds :
       /\ <<o, p>> # <<sigIn.order, sigIn.payment>>
       /\ sigIn.sig = GatewaySignature(o, p)

\* C6: SUCCESS is never left, and a validly signed verify call that finds its
\* order SUCCESS is answered 200 "already processed" with the stored payment
\* id and invoice link, changes no record and dispatches no email, also when
\* it carries another payment id than the stored one.
C6_VerifyOnSuccessIsNoOp ==
  [][/\ \A i \in 1..Len(students) :
          students[i].paymentStatus = PAYMENT_STATUS.SUCCESS
            => students'[i].paymentStatus = PAYMENT_STATUS.SUCCESS
     /\ \A r \in BagToSet(vreq) :
          (r.pc = "find" /\ StoredStatus(r.order) = PAYMENT_STATUS.SUCCESS /\ Stepped(r))
            => /\ students' = students
               /\ dispatched' = dispatched
               /\ VerifyAnswered
               /\ lastAnswer'.order = r.order
               /\ lastAnswer'.payment = r.payment
               /\ lastAnswer'.email = "none"
               /\ lastAnswer'.resp.status = 200
               /\ lastAnswer'.resp.message = "Payment already processed"
               /\ lastAnswer'.resp.paymentId = RecordOf(r.order).razorpayPaymentId
               /\ lastAnswer'.resp.orderId = r.order
               /\ lastAnswer'.resp.invoiceLink = RecordOf(r.order).invoiceLink]_vars

\* a call carrying another payment id than the stored one was answered
\* "already processed", and the record still holds the stored id
C6_Witness ==
  /\ lastAnswer.route = "verify"
  /\ lastAnswer.resp.message = "Payment already processed"
  /\ lastAnswer.payment # lastAnswer.resp.paymentId
  /\ RecordOf(lastAnswer.order).razorpayPaymentId = lastAnswer.resp.paymentId
  /\ dispatched[lastAnswer.order] = 1

\* the call answered in this step repeats the payload of the call answered
\* before it, which was validly signed and found its order
RepeatedVerify ==
  /\ VerifyAnswered
  /\ lastAnswer.route = "verify"
  /\ ValidlySigned(lastAnswer)
  /\ lastAnswer.found
  /\ lastAnswer'.order = lastAnswer.order
  /\ lastAnswer'.payment = lastAnswer.payment
  /\ lastAnswer'.sig = lastAnswer.sig

SameSuccess ==
  /\ lastAnswer.resp.status = 200
  /\ lastAnswer'.resp.status = 200
  /\ lastAnswer'.resp.paymentId = lastAnswer.resp.paymentId
  /\ lastAnswer'.resp.orderId = lastAnswer.resp.orderId
  /\ lastAnswer'.resp.invoiceLink = lastAnswer.resp.invoiceLink

C8_EmailFailureKeepsSuccess ==
  /\ [](lastAnswer.email \in {"sent", "non2xx", "networkError"}
          => /\ lastAnswer.resp.status = 200
             /\ lastAnswer.resp.message = "Payment verified and student enrolled successfully"
             /\ lastAnswer.resp.paymentId = lastAnswer.payment
             /\ lastAnswer.resp.orderId = lastAnswer.order
             /\ StoredStatus(lastAnswer.order) = PAYMENT_STATUS.SUCCESS
             /\ RecordOf(lastAnswer.order).razorpayPaymentId # Undefined
             /\ RecordOf(lastAnswer.order).paymentDate # NoDate)
  /\ [][dispatched' # dispatched => students' = students]_vars

C8_Witness ==
  /\ lastAnswer.email \in {"non2xx", "networkError"}
  /\ lastAnswer.resp.status = 200
  /\ StoredStatus(lastAnswer.order) = PAYMENT_STATUS.SUCCESS

\* C9: GET /invoices/:link answers 200 with the invoice exactly when a record
\* with that link exists and is SUCCESS at the time of the read; otherwise it
\* answers 404 and the response carries no field of any record.
C9_InvoiceOnlyForSuccess ==
  /\ [](lastAnswer.route = "invoice"
          => /\ lastAnswer.resp.status \in {200, 404}
             /\ lastAnswer.resp.status = 200
                  => /\ \E d \in Records : /\ d.invoiceLink = lastAnswer.link
                                           /\ d.paymentStatus = PAYMENT_STATUS.SUCCESS
                     /\ lastAnswer.resp.invoiceLink = lastAnswer.link
                     /\ lastAnswer.resp.paymentStatus = PAYMENT_STATUS.SUCCESS
             /\ lastAnswer.resp.status = 404
                  => /\ lastAnswer.resp.invoiceLink = 0
                     /\ lastAnswer.resp.paymentStatus = ""
                     /\ lastAnswer.resp.paymentId = Undefined
                     /\ lastAnswer.resp.orderId = Undefined)
  /\ [][(lastAnswer' # lastAnswer /\ lastAnswer'.route = "invoice")
          => /\ students' = students
             /\ lastAnswer'.resp.status = 200
                  <=> \E d \in Records : /\ d.invoiceLink = lastAnswer'.link
                                         /\ d.paymentStatus = PAYMENT_STATUS.SUCCESS]_vars

\* the invoice of a record that is still PROCESSING was asked for and refused
C9_Witness ==
  /\ lastAnswer.route = "invoice"
  /\ lastAnswer.resp.status = 404
  /\ \E d \in Records : /\ d.invoiceLink = lastAnswer.link
                        /\ d.paymentStatus = PAYMENT_STATUS.PROCESSING

CreateAnswered == creq.pc # "done" /\ creq'.pc = "done"

DateOfBirthMessages == {"Date of birth is required", "Invalid date of birth format"}

\* what refused the save of the request answered in this step names neither
\* a consent, nor an index, nor the database: the request was valid, the
\* gateway created its order and the database was up
ValidOrderAnswered ==
  /\ creq.pc = "persist"
  /\ creq'.pc = "done"
  /\ creq'.resp.message \notin DateOfBirthMessages
  /\ creq'.resp.details \cap {"agreedToTerms", "certifiedInformation", "E11000", "MongoError"} = {}

RECURSIVE SumOfPrices(_, _)
SumOfPrices(items, n) == IF n = 0 THEN 0 ELSE items[n].price + SumOfPrices(items, n - 1)

\* C11 as stated: a create-order request that fails validation or pricing
\* (packageData or studentData missing, unknown product type or id, a type
\* with no add-on catalog) is answered with a 400-class error, and no gateway
\* order is created and no record is persisted for it.
C11_FailedValidationIs400 ==
  [][(creq.pc \in {"idle", "done"} /\ creq'.pc = "done" /\ creq' # creq)
       => /\ creq'.resp.status \in 400..499
          /\ gatewayOrders' = gatewayOrders
          /\ students' = students]_vars

\* C12 as stated: a create-order request whose date of birth is missing or
\* unparseable is answered with a 400-class error before any external call:
\* its handler has created no gateway order, and it persists no record.
C12_DateOfBirthRejectedBeforeGateway ==
  [][(CreateAnswered /\ creq'.resp.message \in DateOfBirthMessages)
       => /\ creq'.resp.status \in 400..499
          /\ creq.order = Undefined
          /\ students' = students]_vars

\* C13: no stored record has agreedToTerms or certifiedInformation other than
\* true, and the save of a document in which a consent is false (given as
\* false or absent in the request) is refused with a ValidationError that
\* names the consent: no record is stored for it.
C13_NoRecordWithoutConsent ==
  /\ \A d \in Records : d.agreedToTerms = TRUE /\ d.certifiedInformation = TRUE
  /\ (fnOut.done /\ (fnIn.agreedToTerms # TRUE \/ fnIn.certifiedInformation # TRUE))
       => /\ fnOut.value \cap {"agreedToTerms", "certifiedInformation"} # {}
          /\ \A d \in Records : d._id # fnIn._id

\* a document that only lacks a consent was refused
C13_Witness ==
  /\ fnOut.done
  /\ fnIn.agreedToTerms = FALSE
  /\ fnIn.gstAmountINR # NaN
  /\ fnOut.value = {"agreedToTerms"}
  /\ \A d \in Records : d._id # fnIn._id

\* the add-on prices the catalog holds for the first n ids of the list
RECURSIVE ExpectedAddonPrice(_, _, _)
ExpectedAddonPrice(catalog, ids, n) ==
  IF n = 0 THEN 0
  ELSE (IF ids[n] \in DOMAIN catalog THEN catalog[ids[n]].price ELSE 0)
         + ExpectedAddonPrice(catalog, ids, n - 1)

\* C14: for every product of the catalog whose type has an add-on catalog,
\* every add-on id list and every duration, the calculator raises no error
\* and returns programPrice = unit price * duration for a monthly product and
\* the unit price otherwise, addonPrice = the sum of the prices of the listed
\* ids that resolve in the add-on catalog of the type, one addonsData item
\* per such id, and subtotal = programPrice + addonPrice.
C14_CalculatorPrices ==
  (/\ fnOut.done
   /\ fnIn.type \in DOMAIN products
   /\ fnIn.type \in DOMAIN addonTypeMap
   /\ fnIn.selectedProduct \in DOMAIN products[fnIn.type]
   /\ fnIn.duration # NaN)
    => LET product == products[fnIn.type][fnIn.selectedProduct]
           catalog == products[addonTypeMap[fnIn.type]]
           pricing == fnOut.value.pricing
       IN  /\ fnOut.value.error = ""
           /\ pricing.programUnitPrice = product.price
           /\ pricing.programPrice =
                 IF product.type = "monthly" THEN product.price * fnIn.duration
                 ELSE product.price
           /\ pricing.addonPrice =
                 ExpectedAddonPrice(catalog, fnIn.selectedAddon, Len(fnIn.selectedAddon))
           /\ Len(fnOut.value.addonsData) =
                 Cardinality({i \in 1..Len(fnIn.selectedAddon) :
                                fnIn.selectedAddon[i] \in DOMAIN catalog})
           /\ pricing.subtotal = pricing.programPrice + pricing.addonPrice

\* two months of a monthly product with an add-on that resolves and one that
\* does not
C14_Witness ==
  /\ fnOut.done
  /\ fnOut.value.error = ""
  /\ fnIn.type = "programs"
  /\ fnIn.selectedProduct = "fullstack"
  /\ fnIn.duration = 2
  /\ fnIn.selectedAddon = <<"ghost", "mentor">>
  /\ fnOut.value.pricing.subtotal = 1100

\* C15 as stated: for every order, the calculator's total, the amount sent to
\* the gateway divided by 100 and the stored totalINR of the order's record
\* all equal the computed subtotal.
C15_TotalEqualsSubtotal ==
  [][ValidOrderAnswered
       => /\ creq.data.pricing.total = creq.data.pricing.subtotal
          /\ creq.amount = 100 * creq.data.pricing.subtotal
          /\ \E i \in 1..Len(students') :
               /\ students'[i].razorpayOrderId = creq.order
               /\ students'[i].totalINR = creq.data.pricing.subtotal]_vars

\* C16 as stated: an order created with a list of N add-on ids has a record
\* with N addonsData items whose prices sum to its addonPriceINR (which the
\* invoice lookup returns once the order is SUCCESS); no items and 0 for
\* N = 0.
C16_AddonItemsRoundTrip ==
  [][ValidOrderAnswered
       => \E i \in 1..Len(students') :
            /\ students'[i].razorpayOrderId = creq.order
            /\ Len(students'[i].addonsData) = Len(creq.selectedAddons)
            /\ SumOfPrices(students'[i].addonsData, Len(students'[i].addonsData))
                 = students'[i].addonPriceINR]_vars

\* k is the whole number nearest to num / den, halves up
RoundsTo(k, num, den) == den * (2 * k - 1) <= 2 * num /\ 2 * num < den * (2 * k + 1)

PricingSnapshot(d) ==
  <<d.programPriceINR, d.addonPriceINR, d.addonsData, d.subtotalINR, d.gstRate,
    d.gstAmountINR, d.totalINR>>

\* C18: no step of a create-order, verify, invoice-lookup, invoice-send or
\* admin-list request removes a record or changes programPriceINR,
\* addonPriceINR, addonsData, subtotalINR, gstRate, gstAmountINR or totalINR
\* of a stored record.
C18_PricingSnapshotWriteOnce ==
  [][students' # students
       => \A i \in 1..Len(students) :
            /\ i <= Len(students')
            /\ PricingSnapshot(students'[i]) = PricingSnapshot(students[i])]_vars

\* a record that verify moved to SUCCESS, and whose invoice was then mailed
\* by the send route, still holds the prices it was stored with
C18_Witness ==
  /\ lastAnswer.route = "send"
  /\ lastAnswer.resp.status = 200
  /\ \E d \in Records :
       /\ d.invoiceLink = lastAnswer.link
       /\ d.paymentStatus = PAYMENT_STATUS.SUCCESS
       /\ d.paymentDate # NoDate
       /\ PricingSnapshot(d) = PricingSnapshot(storedStudent(d._id))

C20_OnlyProcessingToSuccess ==
  /\ [](\A d \in Records :
          d.paymentStatus \in {PAYMENT_STATUS.PROCESSING, PAYMENT_STATUS.SUCCESS})
  /\ [][\A i \in 1..Len(students) :
          /\ i <= Len(students')
          /\ students'[i].paymentStatus # students[i].paymentStatus
               => /\ students[i].paymentStatus = PAYMENT_STATUS.PROCESSING
                  /\ students'[i].paymentStatus = PAYMENT_STATUS.SUCCESS]_vars

\* a record is SUCCESS while a second verify call for its order, loaded when
\* it was PROCESSING, is about to write
C20_Witness ==
  \E d \in Records :
    /\ d.paymentStatus = PAYMENT_STATUS.SUCCESS
    /\ InFlight("update", d.razorpayOrderId) = 1
    /\ InFlight("email", d.razorpayOrderId) = 1

\* C21 as stated: a record has a razorpayPaymentId and a paymentDate exactly
\* when it is SUCCESS, and the razorpayPaymentId is written only by the
\* validly signed verify call that moves the record from PROCESSING to
\* SUCCESS, with the payment id of that call.
C21_PaymentIdOfTheTransition ==
  /\ [](\A d \in Records :
          /\ d.razorpayPaymentId # Undefined <=> d.paymentStatus = PAYMENT_STATUS.SUCCESS
          /\ d.paymentDate # NoDate <=> d.paymentStatus = PAYMENT_STATUS.SUCCESS)
  /\ [][\A i \in 1..Len(students) :
          (i <= Len(students')
             /\ students'[i].razorpayPaymentId # students[i].razorpayPaymentId)
            => /\ students[i].paymentStatus = PAYMENT_STATUS.PROCESSING
               /\ students'[i].paymentStatus = PAYMENT_STATUS.SUCCESS
               /\ \E r \in BagToSet(vreq) :
                    /\ Stepped(r)
                    /\ ValidlySigned(r)
                    /\ r.order = students[i].razorpayOrderId
                    /\ r.payment = students'[i].razorpayPaymentId]_vars

\* C22 as stated: POST /invoices/send answers 400 when studentEmail or
\* invoiceLink is missing, 404 when no record has the invoice link, and 200
\* for every dispatch attempt on a known link, whether or not the mail relay
\* accepts the message.
C22_SendIsBestEffort ==
  lastAnswer.route = "send"
    => /\ lastAnswer.link = 0 => lastAnswer.resp.status = 400
       /\ (lastAnswer.link # 0 /\ ~lastAnswer.found) => lastAnswer.resp.status = 404
       /\ lastAnswer.found => lastAnswer.resp.status = 200

\* C23: a validly signed verify call whose order id no stored record holds is
\* answered 404 by its lookup step, which stores no record and dispatches no
\* email; and a call that is not validly signed is answered 400 whether or
\* not a record holds its order id, the signature being checked before the
\* lookup, so that every 404 of verify answers a validly signed call.
C23_UnknownOrderIs404 ==
  /\ [](lastAnswer.route = "verify"
          => /\ ~ValidlySigned(lastAnswer)
                  => /\ lastAnswer.resp.status = 400
                     /\ ~lastAnswer.found
             /\ lastAnswer.resp.status = 404
                  => ValidlySigned(lastAnswer) /\ ~lastAnswer.found)
  /\ [][\A r \in BagToSet(vreq) :
          (/\ r.pc = "find"
           /\ Stepped(r)
           /\ findByRazorpayOrderId(students, r.order) = 0)
            => /\ VerifyAnswered
               /\ lastAnswer'.order = r.order
               /\ lastAnswer'.resp.status = 404
               /\ lastAnswer'.email = "none"
               /\ students' = students
               /\ dispatched' = dispatched]_vars

\* a validly signed call for an order id that no record holds was answered
\* 404, and nothing was stored or dispatched for the order
C23_Witness ==
  /\ lastAnswer.route = "verify"
  /\ ValidlySigned(lastAnswer)
  /\ lastAnswer.resp.status = 404
  /\ lastAnswer.resp.message = "Student record not found for this order"
  /\ StoredStatus(lastAnswer.order) = "none"
  /\ dispatched[lastAnswer.order] = 0

\* no stored record holds the id of gateway order k
Orphan(k) == \A d \in Records : d.razorpayOrderId # OrderId(k)

\* C26: when the save of create-order fails after the gateway created the
\* order, the request is answered 500 with the reason and stores no record;
\* the gateway keeps its orders; and an order of the gateway that no record
\* names and whose create-order request has ended gets no record from any
\* later request.
C26_OrphanGatewayOrderStays ==
  /\ [][(/\ creq.pc = "persist"
         /\ creq'.pc = "done"
         /\ creq'.resp.message \notin DateOfBirthMessages
         /\ Len(students') = Len(students))
          => /\ students' = students
             /\ creq'.resp.status = 500
             /\ creq'.resp.message = "Failed to create order"
             /\ creq'.resp.details # {}
             /\ creq'.order = creq.order
             /\ \E k \in 1..gatewayOrders' : creq.order = OrderId(k) /\ Orphan(k)']_vars
  /\ [][/\ gatewayOrders' >= gatewayOrders
        /\ \A k \in 1..gatewayOrders :
             (Orphan(k) /\ ~(creq.pc = "persist" /\ creq.order = OrderId(k)))
               => Orphan(k)']_vars

\* the gateway holds an order whose create-order request was answered 500,
\* no record names it, and a validly signed verify call for it was answered
\* 404
C26_Witness ==
  /\ creq.pc = "done"
  /\ creq.resp.status = 500
  /\ creq.resp.details # {}
  /\ \E k \in 1..gatewayOrders : creq.order = OrderId(k) /\ Orphan(k)
  /\ lastAnswer.route = "verify"
  /\ lastAnswer.order = creq.order
  /\ ValidlySigned(lastAnswer)
  /\ lastAnswer.resp.status = 404

\* C27: an invoice email is dispatched for an order, or about to be, only
\* when the stored record is SUCCESS with a payment id and a payment date;
\* and the step of a verify call whose status update fails writes no record
\* and dispatches no email, ends the call with a 400 or 500 answer, and
\* leaves a record that was PROCESSING still PROCESSING with no payment id
\* and no payment date.
C27_DispatchOnlyAfterUpdate ==
  /\ [](\A o \in GatewayOrderIds :
          (dispatched[o] > 0 \/ InFlight("email", o) > 0)
            => /\ StoredStatus(o) = PAYMENT_STATUS.SUCCESS
               /\ RecordOf(o).razorpayPaymentId # Undefined
               /\ RecordOf(o).paymentDate # NoDate)
  /\ [][\A r \in BagToSet(vreq) :
          (r.pc = "update" /\ Stepped(r) /\ VerifyAnswered)
            => /\ lastAnswer'.saveFailed
               /\ lastAnswer'.order = r.order
               /\ lastAnswer'.email = "none"
               /\ lastAnswer'.resp.status \in {400, 500}
               /\ students' = students
               /\ dispatched' = dispatched
               /\ StoredStatus(r.order) = PAYMENT_STATUS.PROCESSING
                    => /\ RecordOf(r.order)'.paymentStatus = PAYMENT_STATUS.PROCESSING
                       /\ RecordOf(r.order)'.razorpayPaymentId = Undefined
                       /\ RecordOf(r.order)'.paymentDate = NoDate]_vars

\* the write of a validly signed call failed in the database: the call was
\* answered 500, nothing was dispatched and the record is still PROCESSING
C27_Witness ==
  /\ lastAnswer.route = "verify"
  /\ lastAnswer.saveFailed
  /\ lastAnswer.resp.status = 500
  /\ MatchesPaymentIdFormat(lastAnswer.payment)
  /\ dispatched[lastAnswer.order] = 0
  /\ StoredStatus(lastAnswer.order) = PAYMENT_STATUS.PROCESSING
  /\ RecordOf(lastAnswer.order).razorpayPaymentId = Undefined

\* C28 as stated: an invoice email is sent only for an order that is
\* SUCCESS, by the dispatch of a verify call or by a direct POST
\* /invoices/send with a known invoice link.
C28_EmailOnlyForSuccess ==
  /\ \A o \in GatewayOrderIds :
       dispatched[o] > 0 => StoredStatus(o) = PAYMENT_STATUS.SUCCESS
  /\ (lastAnswer.route = "send" /\ lastAnswer.email = "sent")
       => \E d \in Records : /\ d.invoiceLink = lastAnswer.link
                             /\ d.paymentStatus = PAYMENT_STATUS.SUCCESS

RefreshAdmitted(token) ==
  \E r \in BagToSet(areq') :
    /\ r.op = "refresh" /\ r.pc = "user" /\ r.token = token
    /\ CopiesIn(r, areq') > CopiesIn(r, areq)

\* C30: a refresh token is accepted by the refresh operation at most once, and
\* never after it was invalidated: once a refresh with T has answered with new
\* tokens, a logout of T's user with T has completed, or a password change or
\* reset of T's user has completed, no later refresh call with T passes the
\* token lookup, adds a token or answers anything but an authentication error.
C30_RefreshTokenSingleUse ==
  /\ [](\A token \in BagToSet(refreshed) : CopiesIn(token, refreshed) <= 1)
  /\ [][\A token \in invalidated :
          /\ ~RefreshAdmitted(token)
          /\ (authAnswer' # authAnswer /\ authAnswer'.op = "refresh" /\ authAnswer'.token = token /\ areq' = areq)
               => (authAnswer'.status = AuthenticationError /\ authAnswer'.issued = NoTokens /\ tokens' = tokens)]_vars

\* an access token this server signed that has not expired
ValidAccessToken(token) ==
  /\ token.secret = JWT_SECRET /\ token.type = TOKEN_TYPES.ACCESS
  /\ token.iat <= clock /\ clock < token.exp

\* the roles a user-management route is open to; a user's own record and
\* activity are open to that user as well
RolePermitted(route, token, id) ==
  \/ token.role = USER_ROLES.ADMIN
  \/ route \in {"getUsers", "searchUsers", "getUsersByRole"} /\ token.role = USER_ROLES.MODERATOR
  \/ route \in {"getUserById", "getUserActivity"} /\ token.userId = id

\* C25: on every user-management route a request without a valid access
\* token is answered 401 and a request whose authenticated role is not
\* permitted for the route is answered 403; in both cases the handler does not
\* run: no user is read or written and nothing is left in flight.  No user
\* record changes except by a registration or by a permitted request.
C25_GuardsRunBeforeHandler ==
  [][/\ (authAnswer' # authAnswer /\ authAnswer'.op \in UserRoutes)
          => /\ ~ValidAccessToken(authAnswer'.token)
                  => (authAnswer'.status = 401 /\ ~authAnswer'.handler /\ users' = users /\ areq' = areq)
             /\ (ValidAccessToken(authAnswer'.token) /\ ~RolePermitted(authAnswer'.op, authAnswer'.token, authAnswer'.userId))
                  => (authAnswer'.status = 403 /\ ~authAnswer'.handler /\ users' = users /\ areq' = areq)
     /\ users' # users
          => \/ authAnswer'.op = "register"
             \/ /\ authAnswer'.op \in UserRoutes
                /\ ValidAccessToken(authAnswer'.token)
                /\ RolePermitted(authAnswer'.op, authAnswer'.token, authAnswer'.userId)]_vars

\* an account that is no admin was refused on a route, and an earlier request
\* of an admin was let through (the account exists)
C25_Witness ==
  /\ authAnswer.op \in UserRoutes /\ authAnswer.status = 403 /\ ~authAnswer.handler
  /\ ValidAccessToken(authAnswer.token) /\ authAnswer.token.userId = 2
  /\ Len(users) = 2

\* the email belongs to a user
EmailTaken(email) == \E i \in UserIds(users) : users[i].email = lowercase(email)

\* C24: registration keeps user emails unique: a POST /auth/register with an
\* email that already belongs to a user is answered 409 and creates no second
\* user, and in every reachable state no two users have the same email.
C24_RegistrationKeepsEmailsUnique ==
  /\ [](\A i, j \in UserIds(users) : users[i].email = users[j].email => i = j)
  /\ [][(authAnswer' # authAnswer /\ authAnswer'.op = "register" /\ EmailTaken(authAnswer'.email))
          => (authAnswer'.status = 409 /\ users' = users /\ authAnswer'.issued = NoTokens)]_vars

\* a registration was refused with 409 for the email of a user that an
\* earlier call created
C24_Witness ==
  /\ authAnswer.op = "register" /\ authAnswer.status = 409
  /\ Len(users) = 2 /\ 2 \in UserIds(users)
  /\ users[2].email = lowercase(authAnswer.email)

====
